---- MODULE Spec2Model ----
(***************************************************************************)
(* Horizon-AI backend worker: the IPC request/stream dispatcher            *)
(* (worker/main.py, worker/ipc/*.py) with its permission guard, payload    *)
(* size check and rate limiter (worker/services/rate_limiter.py), the chat *)
(* stream generator and the conversation store it writes to.               *)
(***************************************************************************)
EXTENDS Integers, Sequences, FiniteSets, TLC

(***************************************************************************)
(* Bounds of the model.                                                    *)
(***************************************************************************)
MaxRequests == 4          \* requests the host writes on stdin (Spec)
MaxTime == 361            \* the clock stops advancing after this instant
MaxCalls == 4             \* check_limit calls (SpecRate)
MaxStreamRequests == 2    \* requests the host writes on stdin (SpecStream)
MaxChunks == 2            \* chunks a model runtime / sidecar answer has
MaxCancelRequests == 3    \* requests the host writes on stdin (SpecCancel)
MaxFrames == 2            \* frames each emitter writes (SpecWire)
MaxLoopRequests == 3      \* lines the host writes on stdin (SpecLoop)
MaxCallers == 2           \* threads calling generate
MaxSpawn == 2             \* sidecar processes spawned
MaxAirCalls == 2          \* enable / disable calls
MaxChats == 2             \* conversation files (SpecFiles)
MaxMessages == 2          \* messages in a conversation file (SpecFiles)
MaxTurns == 4             \* messages in a conversation (SpecPrompt)
MaxClock == 2             \* hours that pass (SpecToken)
MaxHours == 2             \* largest expires_hours asked for (SpecToken)
MaxThreads == 2           \* server threads stopped and not yet finished (SpecTunnel)

None == "None"
NoChat == 0               \* chat_id = None
NoRetry == 0 - 1          \* check_limit's retry_after = None
NoHours == 0 - 1          \* token_expires_hours = None
NoCall == 0 - 1           \* search_web was not called
MaxAsked == 20            \* largest web_max_results a request carries (SpecWeb)

(***************************************************************************)
(* Permission guard tables (class attributes of PermissionGuard).          *)
(***************************************************************************)
RepoAnalyzeCmds ==
    {"analyze_repository", "get_repo_summary", "detect_tech_debt", "projects_add_repo"}
MemoryAccessCmds ==
    {"memory_save", "memory_get", "memory_list", "memory_delete",
     "memory_clear_session", "memory_set_crypto_password"}
RemoteAccessCmds ==
    {"tunnel_install_cloudflared", "tunnel_generate_token", "tunnel_start",
     "tunnel_stop", "tunnel_get_qr", "tunnel_add_allowed_ip",
     "tunnel_remove_allowed_ip", "tunnel_validate_token",
     "tunnel_validate_custom_token", "tunnel_set_custom_token",
     "tunnel_set_named_tunnel", "tunnel_get_qr_with_token", "http_start", "http_stop"}
CommandExecuteCmds == {"set_startup"}

REQUIRED_PERMISSIONS ==
    [c \in RepoAnalyzeCmds \cup MemoryAccessCmds \cup RemoteAccessCmds \cup CommandExecuteCmds |->
        IF c \in RepoAnalyzeCmds THEN "RepoAnalyze"
        ELSE IF c \in MemoryAccessCmds THEN "MemoryAccess"
        ELSE IF c \in RemoteAccessCmds THEN "RemoteAccess"
        ELSE "CommandExecute"]

ALWAYS_ALLOWED ==
    {"health_check", "cancel_chat", "shutdown", "tunnel_check_cloudflared",
     "tunnel_install_progress", "tunnel_get_status", "get_system_stats",
     "get_monitoring", "load_settings", "save_settings", "pull", "get_models",
     "delete_model", "list_conversations", "get_conversation_messages",
     "get_conversation_metadata", "delete_conversation",
     "chat_history_set_crypto_password", "chat", "grant_permission",
     "revoke_permission", "has_permission", "rate_limiter_is_blocked",
     "rate_limiter_get_blocked", "rate_limiter_set_limit",
     "rate_limiter_get_limits", "rate_limiter_reset", "rate_limiter_get_stats",
     "update_conversation_project", "projects_list", "projects_get",
     "projects_create", "projects_update", "projects_delete",
     "projects_remove_repo", "projects_get_or_create_orphan",
     "airllm_list_models", "airllm_status", "airllm_enable", "airllm_reload",
     "airllm_disable", "airllm_set_active_model"}

\* Permission labels a grant or revoke may carry: the four the table uses, and
\* one label no command requires.
Permissions == {"RepoAnalyze", "MemoryAccess", "RemoteAccess", "CommandExecute", "FileAccess"}

\* Command names no table lists: a made-up name, a name the dispatcher has a
\* handler for, the rate limiter's "default" key and a commented-out entry.
UnlistedCmds == {"nope", "web_search_available", "default", "read_file"}

(***************************************************************************)
(* Rate limiter and input validator configuration.                         *)
(***************************************************************************)
block_duration == 300
time_window == 60
max_payload_size == 1048576

DefaultLimits ==
    [c \in {"tunnel_start", "tunnel_stop", "tunnel_generate_token",
            "analyze_repository", "grant_permission", "default",
            "tunnel_validate_custom_token", "tunnel_set_custom_token"} |->
        CASE c \in {"tunnel_start", "tunnel_stop"} -> 5
          [] c \in {"tunnel_generate_token", "analyze_repository"} -> 3
          [] c = "grant_permission" -> 10
          [] c = "default" -> 30
          [] OTHER -> 2]

ClientIds == {"unknown", "hostB"}

\* The threads that write frames: the reader thread (request responses), a
\* stream pump thread and the telemetry thread.
Emitters == {"reader", "pump", "telemetry"}

VARIABLES
    enabled,               \* PermissionGuard.enabled
    granted_permissions,   \* PermissionGuard.granted_permissions
    limits,                \* RateLimiter.limits
    request_history,       \* RateLimiter.request_history[command][ip]
    blocked_ips,           \* RateLimiter.blocked_ips
    now,                   \* time.time(), in seconds
    out,                   \* frames written on stdout: for each id, the frames
                           \* carrying it, in the order they were written
    nread,                 \* requests read from stdin so far
    reader,                \* the reader thread: its position and the request in hand
    running,               \* Worker.running
    streams,               \* the stream threads, by request id
    active_chat_id,        \* CommandDispatcher.active_chat_id
    cancel_streaming,      \* CommandDispatcher.cancel_streaming
    store,                 \* conversation files: chat id -> messages
    lock,                  \* IpcHandler.lock: the emitter holding it, or None
    stdout,                \* what has been written to sys.stdout, write by write
    emitters,              \* the threads that emit frames: position, frames sent
    recent,                \* the instants of the allowed requests of the last
                           \* time_window seconds, per command and client
    last,                  \* the most recent guard / limiter call and its answer
    air,                   \* the AirLLMManager object: its fields
    procs,                 \* the sidecar processes spawned so far, by pid
    main,                  \* the thread calling enable / reload / disable
    callers,               \* the threads calling AirLLMManager.generate
    readers,               \* the reader threads _start_reader started
    watchers,              \* the _watch_load_timeout threads
    master_key,            \* crypto_service's master key: None when unset
    files,                 \* the conversation files of ChatHistoryService
    tunnel,                \* the TunnelService object: its fields
    config_file,           \* tunnel_config.json as saved, or None
    singleton_key,         \* the master key of the crypto_service singleton
    utcnow,                \* datetime.utcnow(), in hours
    http                   \* the RemoteAccessServer object and its threads

guardVars == <<enabled, granted_permissions>>
rateVars == <<limits, request_history, blocked_ips>>
ioVars == <<out, nread, reader, running>>
chatVars == <<streams, active_chat_id, cancel_streaming, store>>
wireVars == <<lock, stdout, emitters>>
airVars == <<air, procs, main, callers, readers, watchers>>
fileVars == <<master_key, files>>
netVars == <<tunnel, config_file, singleton_key, utcnow, http>>
vars == <<enabled, granted_permissions, limits, request_history, blocked_ips,
          now, out, nread, reader, running, streams, active_chat_id,
          cancel_streaming, store, lock, stdout, emitters, recent, last,
          air, procs, main, callers, readers, watchers, master_key, files,
          tunnel, config_file, singleton_key, utcnow, http>>

(***************************************************************************)
(* PermissionGuard.check                                                   *)
(***************************************************************************)
\* A guard that lets a command nobody listed through.
check_allow_unlisted(cmd, payload, en, granted) ==
    IF ~en THEN [allowed |-> TRUE, error |-> ""]
    ELSE IF cmd \in ALWAYS_ALLOWED THEN [allowed |-> TRUE, error |-> ""]
    ELSE IF cmd \notin DOMAIN REQUIRED_PERMISSIONS THEN [allowed |-> TRUE, error |-> ""]
    ELSE IF REQUIRED_PERMISSIONS[cmd] \notin granted
         THEN [allowed |-> FALSE, error |-> "required"]
    ELSE [allowed |-> TRUE, error |-> ""]

\* A guard that accepts any granted permission instead of the required one.
check_any_grant(cmd, payload, en, granted) ==
    IF ~en THEN [allowed |-> TRUE, error |-> ""]
    ELSE IF cmd \in ALWAYS_ALLOWED THEN [allowed |-> TRUE, error |-> ""]
    ELSE IF cmd \notin DOMAIN REQUIRED_PERMISSIONS THEN [allowed |-> FALSE, error |-> "unknown"]
    ELSE IF granted = {} THEN [allowed |-> FALSE, error |-> "required"]
    ELSE [allowed |-> TRUE, error |-> ""]

check(cmd, payload, en, granted) ==
    IF ~en THEN [allowed |-> TRUE, error |-> ""]
    ELSE IF cmd \in ALWAYS_ALLOWED THEN [allowed |-> TRUE, error |-> ""]
    ELSE IF cmd \notin DOMAIN REQUIRED_PERMISSIONS THEN [allowed |-> FALSE, error |-> "unknown"]
    ELSE IF REQUIRED_PERMISSIONS[cmd] \notin granted
         THEN [allowed |-> FALSE, error |-> "required"]
    ELSE [allowed |-> TRUE, error |-> ""]

has_permission(permission, granted) == permission \in granted

\* A grant that replaces the granted set instead of adding to it.
grant_permission_replace(permission, granted) == {permission}

grant_permission(permission, granted) == granted \cup {permission}

revoke_permission(permission, granted) == granted \ {permission}

clear_all_permissions(granted) == {}

(***************************************************************************)
(* InputValidator.validate_payload_size: the payload is abstracted to the  *)
(* byte length of its JSON serialization.                                  *)
(***************************************************************************)
validate_payload_size(payload) == ~(payload.size > max_payload_size)

(***************************************************************************)
(* RateLimiter.check_limit                                                 *)
(***************************************************************************)
RECURSIVE DropOld(_, _)
\* while history and history[0] < cutoff: history.popleft()
DropOld(history, cutoff) ==
    IF history # <<>> /\ Head(history) < cutoff
    THEN DropOld(Tail(history), cutoff)
    ELSE history

Without(f, k) == [x \in DOMAIN f \ {k} |-> f[x]]
With(f, k, v) == [x \in DOMAIN f \cup {k} |-> IF x = k THEN v ELSE f[x]]

\* A limiter that lets one request too many through.
check_limit_off_by_one(command, ip, lim, hist, blk, t) ==
    IF ip \in DOMAIN blk /\ blk[ip] - t > 0
    THEN [allowed |-> FALSE, retry_after |-> blk[ip] - t, history |-> hist, blocked |-> blk]
    ELSE LET blk1 == IF ip \in DOMAIN blk THEN Without(blk, ip) ELSE blk
             limit == IF command \in DOMAIN lim THEN lim[command] ELSE lim["default"]
             h1 == DropOld(hist[command][ip], t - time_window)
         IN  IF Len(h1) > limit
             THEN [allowed |-> FALSE, retry_after |-> block_duration,
                   history |-> [hist EXCEPT ![command][ip] = h1],
                   blocked |-> With(blk1, ip, t + block_duration)]
             ELSE [allowed |-> TRUE, retry_after |-> NoRetry,
                   history |-> [hist EXCEPT ![command][ip] = Append(h1, t)],
                   blocked |-> blk1]

\* A limiter that keeps the entry of a block that has run out.
check_limit_block_kept(command, ip, lim, hist, blk, t) ==
    IF ip \in DOMAIN blk /\ blk[ip] - t > 0
    THEN [allowed |-> FALSE, retry_after |-> blk[ip] - t, history |-> hist, blocked |-> blk]
    ELSE LET limit == IF command \in DOMAIN lim THEN lim[command] ELSE lim["default"]
             h1 == DropOld(hist[command][ip], t - time_window)
         IN  IF Len(h1) >= limit
             THEN [allowed |-> FALSE, retry_after |-> block_duration,
                   history |-> [hist EXCEPT ![command][ip] = h1],
                   blocked |-> With(blk, ip, t + block_duration)]
             ELSE [allowed |-> TRUE, retry_after |-> NoRetry,
                   history |-> [hist EXCEPT ![command][ip] = Append(h1, t)],
                   blocked |-> blk]

check_limit(command, ip, lim, hist, blk, t) ==
    IF ip \in DOMAIN blk /\ blk[ip] - t > 0
    THEN [allowed |-> FALSE, retry_after |-> blk[ip] - t, history |-> hist, blocked |-> blk]
    ELSE LET blk1 == IF ip \in DOMAIN blk THEN Without(blk, ip) ELSE blk
             limit == IF command \in DOMAIN lim THEN lim[command] ELSE lim["default"]
             h1 == DropOld(hist[command][ip], t - time_window)
         IN  IF Len(h1) >= limit
             THEN [allowed |-> FALSE, retry_after |-> block_duration,
                   history |-> [hist EXCEPT ![command][ip] = h1],
                   blocked |-> With(blk1, ip, t + block_duration)]
             ELSE [allowed |-> TRUE, retry_after |-> NoRetry,
                   history |-> [hist EXCEPT ![command][ip] = Append(h1, t)],
                   blocked |-> blk1]

\* RateLimiter.is_blocked, without its clean-up of the expired entry.
is_blocked(ip, blk, t) == ip \in DOMAIN blk /\ t < blk[ip]

(***************************************************************************)
(* Requests.  A payload is abstracted to the fields the dispatcher reads:  *)
(* whether it is a mapping at all, the byte length of its serialization,   *)
(* client_id, permission, chat_id and provider.                            *)
(***************************************************************************)
SmallPayload ==
    [isdict |-> TRUE, size |-> 2, client_id |-> "unknown", permission |-> None,
     chat_id |-> NoChat, provider |-> "ollama"]

\* Payload shapes that do not depend on the command: a plain one, one over the
\* size cap and one that is not a mapping (a JSON list or null).
AnyPayloads ==
    {SmallPayload,
     [SmallPayload EXCEPT !.size = max_payload_size + 1],
     [SmallPayload EXCEPT !.isdict = FALSE]}

GrantablePerms == {"RepoAnalyze", "RemoteAccess"}

\* The payloads the host sends with a command.
PayloadsOf(cmd) ==
    IF cmd \in {"grant_permission", "revoke_permission", "has_permission"}
    THEN {[SmallPayload EXCEPT !.permission = p] : p \in GrantablePerms}
    ELSE IF cmd = "chat"
    THEN {[SmallPayload EXCEPT !.chat_id = c, !.provider = p] :
             c \in {NoChat} \cup DOMAIN store, p \in {"ollama", "airllm"}}
    ELSE IF cmd = "cancel_chat"
    THEN {[SmallPayload EXCEPT !.chat_id = c] : c \in {NoChat} \cup DOMAIN store}
    ELSE IF cmd \in {"health_check", "nope"}
    THEN AnyPayloads
    ELSE IF cmd = "tunnel_validate_custom_token"
    THEN {SmallPayload, [SmallPayload EXCEPT !.size = max_payload_size + 1]}
    ELSE {SmallPayload}

\* The commands the host sends in Spec.
GuardCmds ==
    {"health_check", "nope", "analyze_repository",
     "tunnel_validate_custom_token", "grant_permission", "revoke_permission"}

(***************************************************************************)
(* CommandDispatcher.dispatch.  The answer records the stage that produced *)
(* it: "guard", "size", "rate" for the pre-flight returns, "handler" once  *)
(* the if-chain of handlers is entered, "raise" for an escaping exception. *)
(***************************************************************************)
\* _create_error_response: a plain mapping {error: True, code, message, context}.
ErrorDict(code, stage) ==
    [kind |-> "value", data |-> "error_dict", code |-> code, stage |-> stage,
     chat_id |-> NoChat, provider |-> ""]
Value(data) ==
    [kind |-> "value", data |-> data, code |-> "", stage |-> "handler",
     chat_id |-> NoChat, provider |-> ""]
Raise(msg, stage) ==
    [kind |-> "raise", data |-> msg, code |-> "", stage |-> stage,
     chat_id |-> NoChat, provider |-> ""]
\* A generator object: the chat_stream closure or pull_model_stream.
Stream(what, chat, provider) ==
    [kind |-> "stream", data |-> what, code |-> "", stage |-> "handler",
     chat_id |-> chat, provider |-> provider]

\* Outcomes of the handlers that only call out of the modelled core.
ExternalOutcomes(cmd) ==
    CASE cmd = "health_check" -> {"healthy"}
      [] cmd = "analyze_repository" -> {"analysis", "analysis_failed"}
      [] cmd = "tunnel_validate_custom_token" -> {"token_checked"}
      [] cmd = "web_search_available" -> {"available"}
      [] cmd \in {"get_system_stats", "get_monitoring"} -> {"stats"}
      [] cmd = "shutdown" -> {"shutdown_acknowledged"}
      [] OTHER -> {}

\* A pre-flight that consults the rate limiter before the guard and the
\* payload size.
Preflight_rate_first(cmd, payload) ==
    LET g == check(cmd, payload, enabled, granted_permissions)
        r == IF payload.isdict /\ cmd \in DOMAIN limits
             THEN check_limit(cmd, payload.client_id, limits,
                              request_history, blocked_ips, now)
             ELSE [allowed |-> TRUE, retry_after |-> NoRetry,
                   history |-> request_history, blocked |-> blocked_ips]
        rate == [history |-> r.history, blocked |-> r.blocked]
    IN  IF ~r.allowed
        THEN [res |-> ErrorDict("RATE_LIMIT_EXCEEDED", "rate"), rate |-> rate]
        ELSE IF ~g.allowed
        THEN [res |-> ErrorDict("PERMISSION_DENIED", "guard"), rate |-> rate]
        ELSE IF ~validate_payload_size(payload)
        THEN [res |-> ErrorDict("PAYLOAD_TOO_LARGE", "size"), rate |-> rate]
        ELSE IF ~payload.isdict
        THEN [res |-> Raise("AttributeError", "rate"), rate |-> rate]
        ELSE [res |-> Value("pass"), rate |-> rate]

\* The pre-flight of dispatch: the guard, the payload size, the rate limiter.
\* Gives the denial, or "pass" with the limiter's new state.
Preflight(cmd, payload) ==
    LET g == check(cmd, payload, enabled, granted_permissions)
        rateKeep == [history |-> request_history, blocked |-> blocked_ips]
    IN  IF ~g.allowed
        THEN [res |-> ErrorDict("PERMISSION_DENIED", "guard"), rate |-> rateKeep]
        ELSE IF ~validate_payload_size(payload)
        THEN [res |-> ErrorDict("PAYLOAD_TOO_LARGE", "size"), rate |-> rateKeep]
        ELSE IF ~payload.isdict
        THEN [res |-> Raise("AttributeError", "rate"), rate |-> rateKeep]
        ELSE IF cmd \in DOMAIN limits
        THEN LET r == check_limit(cmd, payload.client_id, limits,
                                  request_history, blocked_ips, now)
             IN  IF ~r.allowed
                 THEN [res |-> ErrorDict("RATE_LIMIT_EXCEEDED", "rate"),
                       rate |-> [history |-> r.history, blocked |-> r.blocked]]
                 ELSE [res |-> Value("pass"),
                       rate |-> [history |-> r.history, blocked |-> r.blocked]]
        ELSE [res |-> Value("pass"), rate |-> rateKeep]

(***************************************************************************)
(* ChatHistoryService, plaintext files: get_messages and save_message.     *)
(* uuid is the fresh id uuid4 gives when chat_id is absent.                *)
(***************************************************************************)
get_messages(st, chat_id) == IF chat_id \in DOMAIN st THEN st[chat_id] ELSE <<>>

save_message(st, chat_id, role, content, uuid) ==
    LET cid == IF chat_id = NoChat THEN uuid ELSE chat_id
        msg == [role |-> role, content |-> content]
    IN  [chat_id |-> cid,
         store |-> With(st, cid, Append(get_messages(st, cid), msg))]

(***************************************************************************)
(* AirLLMManager: the fields of the supervisor and the pieces of disable,  *)
(* _reset_state, _handle_message and _handle_process_exit.  process is a   *)
(* pid, NoProcess when the field is None; pending maps a correlation id to *)
(* the response stored in its entry (None until one is stored); the Event  *)
(* of an entry is the event field of the caller that created it.           *)
(***************************************************************************)
NoProcess == 0
NoCaller == 0
Callers == 1..MaxCallers
Models == {"m1", "m2"}

\* A thread about to call generate: event is the threading.Event it creates,
\* pid the process it wrote its request to, result what generate returned.
NewCaller == [pc |-> "idle", event |-> FALSE, pid |-> NoProcess, result |-> None]

\* generate has returned: its locals are gone.
Returned(result) == [NewCaller EXCEPT !.pc = "done", !.result = result]

NewManager ==
    [status |-> "OFF", model_id |-> None, process |-> NoProcess,
     ready_event |-> FALSE, last_error |-> None, gen_lock |-> NoCaller,
     pending |-> <<>>]

reset_state(a, new_status) ==
    [a EXCEPT !.status = new_status, !.ready_event = FALSE, !.last_error = None]

\* disable, first half: terminate and kill the process the field refers to.
disable_kill(a, ps) ==
    IF a.process # NoProcess
    THEN [ps EXCEPT ![a.process].alive = FALSE, ![a.process].inbox = <<>>]
    ELSE ps

\* disable, second half: forget the process, status OFF, ready_event set,
\* the pending map emptied (no entry's event is set).
disable_clear(a) ==
    [reset_state(a, "OFF") EXCEPT !.process = NoProcess, !.ready_event = TRUE,
                                  !.model_id = None, !.pending = <<>>]

\* disable run without another thread in between.
disable(a) == disable_clear(a)

(***************************************************************************)
(* The handlers of dispatch (the if-chain after the pre-flight).  Return   *)
(* records the value returned or the exception raised.                     *)
(***************************************************************************)
Return(id, cmd, payload, res) ==
    reader' = [pc |-> "respond", id |-> id, cmd |-> cmd, payload |-> payload, result |-> res]

handler(id, cmd, payload) ==
    CASE cmd = "grant_permission" ->
            /\ IF payload.permission = None
               THEN /\ Return(id, cmd, payload, Value("permission is required"))
                    /\ UNCHANGED granted_permissions
               ELSE /\ Return(id, cmd, payload, Value("granted"))
                    /\ granted_permissions' =
                            grant_permission(payload.permission, granted_permissions)
            /\ UNCHANGED <<active_chat_id, cancel_streaming, store>>
      [] cmd = "revoke_permission" ->
            /\ IF payload.permission = None
               THEN /\ Return(id, cmd, payload, Value("permission is required"))
                    /\ UNCHANGED granted_permissions
               ELSE /\ Return(id, cmd, payload, Value("revoked"))
                    /\ granted_permissions' =
                            revoke_permission(payload.permission, granted_permissions)
            /\ UNCHANGED <<active_chat_id, cancel_streaming, store>>
      [] cmd = "has_permission" ->
            /\ Return(id, cmd, payload,
                      IF payload.permission = None THEN Value("permission is required")
                      ELSE IF has_permission(payload.permission, granted_permissions)
                      THEN Value("has_permission") ELSE Value("no_permission"))
            /\ UNCHANGED <<granted_permissions, active_chat_id, cancel_streaming, store>>
      [] cmd = "cancel_chat" ->
            /\ IF payload.chat_id = active_chat_id
               THEN /\ cancel_streaming' = TRUE
                    /\ Return(id, cmd, payload, Value("Streaming cancelled"))
               ELSE /\ UNCHANGED cancel_streaming
                    /\ Return(id, cmd, payload, Value("No active chat or wrong chat_id"))
            /\ UNCHANGED <<granted_permissions, active_chat_id, store>>
      [] cmd = "chat" ->
            LET sm == save_message(store, payload.chat_id, "user", <<"prompt">>, id)
            IN  /\ \/ /\ store' = sm.store
                      /\ Return(id, cmd, payload,
                                Stream("chat", sm.chat_id, payload.provider))
                   \/ /\ UNCHANGED store       \* the file cannot be written
                      /\ Return(id, cmd, payload, Raise("OSError", "handler"))
                /\ UNCHANGED <<granted_permissions, active_chat_id, cancel_streaming>>
      [] cmd = "pull" ->
            /\ Return(id, cmd, payload, Stream("pull", NoChat, ""))
            /\ UNCHANGED <<granted_permissions, active_chat_id, cancel_streaming, store>>
      [] ExternalOutcomes(cmd) # {} ->
            /\ \E o \in ExternalOutcomes(cmd) : Return(id, cmd, payload, Value(o))
            /\ UNCHANGED <<granted_permissions, active_chat_id, cancel_streaming, store>>
      [] OTHER ->
            /\ Return(id, cmd, payload, Raise("Unknown command", "handler"))
            /\ UNCHANGED <<granted_permissions, active_chat_id, cancel_streaming, store>>

\* dispatch(cmd, payload) called for request id; Return hands the reader thread what it
\* returns or raises.
dispatch(id, cmd, payload) ==
    LET pf == Preflight(cmd, payload)
    IN  /\ request_history' = pf.rate.history
        /\ blocked_ips' = pf.rate.blocked
        /\ UNCHANGED <<enabled, limits>>
        /\ IF pf.res.data = "pass" /\ cmd = "shutdown"
           THEN /\ procs' = disable_kill(air, procs)
                /\ air' = disable(air)
           ELSE UNCHANGED <<air, procs>>
        /\ IF pf.res.data # "pass"
           THEN /\ Return(id, cmd, payload, pf.res)
                /\ UNCHANGED <<granted_permissions, active_chat_id, cancel_streaming, store>>
           ELSE handler(id, cmd, payload)

(***************************************************************************)
(* Frames on stdout (IpcHandler.send_response / send_error / send_raw).    *)
(* send_raw writes one frame under the writer lock; SpecWire checks the    *)
(* lock itself.                                                            *)
(***************************************************************************)
Frame(id, kind, status, error_code, data, data_code, event, chat) ==
    [id |-> id, kind |-> kind, status |-> status, error_code |-> error_code,
     data |-> data, data_code |-> data_code, event |-> event, chat_id |-> chat]

send_response(req_id, status, data, data_code) ==
    Frame(req_id, "response", IF status = "ok" THEN "ok" ELSE "error", "",
          data, data_code, "", NoChat)

send_error(req_id, code, message) ==
    Frame(req_id, "response", "error", code, message, "", "", NoChat)

\* A stream event, tagged with the request id by _handle_stream.
Event(req_id, event, data, chat) ==
    Frame(req_id, "event", "", "", data, "", event, chat)

\* The frame {id, error, done: True} _handle_stream writes when the generator raises.
StreamFailure(req_id) == Frame(req_id, "raw", "", "", "error_done", "", "", NoChat)

\* send_raw(frame): the line is appended to stdout.
Written(frame) ==
    IF frame.id \in DOMAIN out
    THEN [out EXCEPT ![frame.id] = Append(@, frame)]
    ELSE With(out, frame.id, <<frame>>)

FramesOf(id) == IF id \in DOMAIN out THEN out[id] ELSE <<>>

\* A reply that puts the dispatcher's error mapping in the error envelope.
run_reply_error_envelope(req_id, result) ==
    IF result.kind = "raise" THEN send_error(req_id, "CMD_ERR", result.data)
    ELSE IF result.kind = "stream"
    THEN send_response(req_id, "ok", "streaming_started", "")
    ELSE IF result.code # "" THEN send_error(req_id, result.code, result.data)
    ELSE send_response(req_id, "ok", result.data, result.code)

\* Worker.run, after dispatch: the frame the reader thread answers with.
run_reply(req_id, result) ==
    IF result.kind = "raise" THEN send_error(req_id, "CMD_ERR", result.data)
    ELSE IF result.kind = "stream"
    THEN send_response(req_id, "ok", "streaming_started", "")
    ELSE send_response(req_id, "ok", result.data, result.code)

NoResult == Value("")
IdleReader(pc) == [pc |-> pc, id |-> 0, cmd |-> "", payload |-> SmallPayload, result |-> NoResult]

\* The thread run starts for a generator: its position in the generator.
NewStream(result) ==
    [kind |-> result.data, pc |-> "start", chat_id |-> result.chat_id,
     provider |-> result.provider, full_response |-> <<>>, n |-> 0]

(***************************************************************************)
(* TunnelService: the token of remote access and its configuration file.   *)
(* A stored token value is kept symbolically: the clear token it was made  *)
(* from, how it was transformed, and the key it is encrypted under.        *)
(***************************************************************************)
Tokens == {"t1", "t2"}

Stored(kind, token, key) == [kind |-> kind, token |-> token, key |-> key]

\* TunnelConfig.auth_token = "".
NoToken == Stored("", None, None)

\* hashlib.sha256(token.encode()).hexdigest()
sha256(token) == Stored("sha256", token, None)

\* "ENC:" + crypto_service.encrypt_string(hash, "tunnel_auth_token")
encrypt_token(hash, key) == Stored("ENC", hash.token, key)

\* TunnelConfig(): the defaults; token_created_at is <<>> for "".
TunnelConfig ==
    [enabled |-> FALSE, tunnel_url |-> "", auth_token |-> NoToken,
     token_created_at |-> <<>>, token_expires_hours |-> 24]

\* _save_config: the dictionary written to tunnel_config.json.
save_config(config, key) ==
    [config EXCEPT !.auth_token =
        IF @ = NoToken THEN @
        ELSE IF @.kind = "ENC" THEN @
        ELSE IF key = None THEN @
        ELSE encrypt_token(@, key)]

\* _load_config: file is <<>> when tunnel_config.json does not exist.
load_config(file, key) ==
    IF file = <<>> THEN TunnelConfig
    ELSE [file[1] EXCEPT !.auth_token =
            IF @.kind = "ENC" /\ key # None /\ @.key = key THEN sha256(@.token) ELSE @]

\* TunnelService.__init__; monitor_thread is where the read_output thread of
\* the latest Popen stands: "none" (not started, or out of its loop),
\* "waiting" (in `for line in stdout`), "line" (it has read a line that
\* carries a URL and has not assigned it yet).
NewTunnel(file, key) ==
    [tunnel_process |-> "none", tunnel_url |-> "", is_running |-> FALSE,
     monitor_thread |-> "none", config |-> load_config(file, key)]

\* RemoteAccessServer.__init__; exiting counts the server threads that have
\* left serve_forever and have not yet run the finally clause of _run_server,
\* late tells that one of them ran it after the server was started again.
NewServer == [server |-> FALSE, is_running |-> FALSE, exiting |-> 0, late |-> FALSE]

(***************************************************************************)
(* Initial state: the worker just constructed, nothing granted, the        *)
(* limiter empty, no conversation on disk.                                 *)
(***************************************************************************)
RateCmds == DOMAIN DefaultLimits

Init ==
    /\ enabled = TRUE
    /\ granted_permissions = {}
    /\ limits = DefaultLimits
    /\ request_history = [c \in RateCmds |-> [ip \in ClientIds |-> <<>>]]
    /\ blocked_ips = <<>>
    /\ now = 0
    /\ out = <<>>
    /\ nread = 0
    /\ reader = IdleReader("read")
    /\ running = TRUE
    /\ streams = <<>>
    /\ active_chat_id = NoChat
    /\ cancel_streaming = FALSE
    /\ store = <<>>
    /\ lock = None
    /\ stdout = <<>>
    /\ emitters = [e \in Emitters |-> [pc |-> "idle", sent |-> 0]]
    /\ air = NewManager
    /\ procs = <<>>
    /\ main = [pc |-> "idle", model |-> None, after |-> "idle", calls |-> 0]
    /\ callers = [c \in Callers |-> NewCaller]
    /\ readers = <<>>
    /\ watchers = <<>>
    /\ master_key = None
    /\ files = <<>>
    /\ tunnel = NewTunnel(<<>>, None)
    /\ config_file = <<>>
    /\ singleton_key = None
    /\ utcnow = 0
    /\ http = NewServer
    /\ recent = [c \in RateCmds |-> [ip \in ClientIds |-> <<>>]]
    /\ last = [op |-> "none"]

\* The process lives until the read loop ends (the threads are daemons).
Alive == reader.pc # "eof"

(***************************************************************************)
(* Worker.run: the reader thread.                                          *)
(***************************************************************************)
\* One loop iteration up to the reply: read a request carrying id and cmd,
\* dispatch it, and start the stream thread when the result is a generator.
ReadRequest(cmds, maxreq) ==
    /\ reader.pc = "read"
    /\ nread < maxreq
    /\ nread' = nread + 1
    /\ \E cmd \in cmds : \E payload \in PayloadsOf(cmd) : dispatch(nread + 1, cmd, payload)
    /\ streams' = IF reader'.result.kind = "stream"
                  THEN With(streams, reader'.id, NewStream(reader'.result))
                  ELSE streams
    /\ UNCHANGED <<now, out, running, wireVars, recent, last, main, callers, readers, watchers, fileVars, netVars>>

\* A line without id or cmd (or blank, or not JSON) is skipped.
ReadMalformed(maxreq) ==
    /\ reader.pc = "read"
    /\ nread < maxreq
    /\ nread' = nread + 1
    /\ UNCHANGED <<guardVars, rateVars, now, out, reader, running, chatVars, wireVars, recent, last, airVars, fileVars, netVars>>

\* The rest of the iteration: the reply frame.
Respond ==
    /\ reader.pc = "respond"
    /\ out' = Written(run_reply(reader.id, reader.result))
    /\ reader' = IdleReader("read")
    /\ UNCHANGED <<guardVars, rateVars, now, nread, running, chatVars, wireVars, recent, last, airVars, fileVars, netVars>>

\* stdin is closed: the loop ends, running is cleared, the process exits.
Eof ==
    /\ reader.pc = "read"
    /\ reader' = [reader EXCEPT !.pc = "eof"]
    /\ running' = FALSE
    /\ UNCHANGED <<guardVars, rateVars, now, out, nread, chatVars, wireVars, recent, last, airVars, fileVars, netVars>>

\* Time passes.
Tick(steps) ==
    /\ \E d \in steps : now + d <= MaxTime /\ now' = now + d
    /\ UNCHANGED <<guardVars, rateVars, ioVars, chatVars, wireVars, recent, last, airVars, fileVars, netVars>>

(***************************************************************************)
(* Spec: the reader thread serving the guarded, rate-limited commands.     *)
(***************************************************************************)
ReadGuardRequest == ReadRequest(GuardCmds, MaxRequests)
GuardTick == Tick({block_duration})

Next ==
    \/ ReadGuardRequest
    \/ Respond
    \/ GuardTick

Spec == Init /\ [][Next]_vars

(***************************************************************************)
(* The stream threads: Worker._handle_stream iterating a generator.  A     *)
(* step of a thread is a stretch of the generator's code that touches the  *)
(* shared state (the cancel flag, the active chat id, the store) once,     *)
(* together with the send_raw of what it yields; the read of the cancel    *)
(* flag at a token boundary and the write of the token are separate steps, *)
(* as another thread can run between them.                                 *)
(***************************************************************************)
TokenAt(i) == <<"t1", "t2", "t3", "t4", "t5">>[i]

StreamAt(id, pc) == Alive /\ id \in DOMAIN streams /\ streams[id].pc = pc

Goto(id, pc) == streams' = [streams EXCEPT ![id].pc = pc]

\* The generator is exhausted and its thread ends: its locals are gone.
Finish(id) ==
    streams' = [streams EXCEPT ![id].pc = "finished", ![id].full_response = <<>>,
                               ![id].n = 0]

StreamOther == <<guardVars, rateVars, now, nread, reader, running, wireVars, recent, last,
                airVars, fileVars, netVars>>

\* chat_stream up to its first yield: reset the cancel flag, publish the
\* active chat id, load the history, build the prompt (which may raise) and
\* yield prompt_preview.  On the sidecar branch the generator then blocks in
\* airllm_manager.generate, which answers with a text or fails.
ChatStart ==
    \E id \in DOMAIN streams :
        /\ StreamAt(id, "start") /\ streams[id].kind = "chat"
        /\ cancel_streaming' = FALSE
        /\ active_chat_id' = streams[id].chat_id
        /\ \/ Goto(id, "error") /\ UNCHANGED out
           \/ /\ out' = Written(Event(id, "prompt_preview", "prompt", NoChat))
              /\ IF streams[id].provider = "airllm"
                 THEN Goto(id, "error") \/ Goto(id, "air_loop")
                 ELSE Goto(id, "next_chunk")
        /\ UNCHANGED <<StreamOther, store>>

\* Sidecar branch, loop head: leave the loop at the end of the text or when
\* the cancel flag is set, otherwise cut the next chunk of 80 characters.
AirLoop ==
    \E id \in DOMAIN streams :
        /\ StreamAt(id, "air_loop")
        /\ IF cancel_streaming
           THEN Goto(id, "save")
           ELSE \/ streams[id].n < MaxChunks /\ Goto(id, "emit_token")
                \/ Goto(id, "save")
        /\ UNCHANGED <<StreamOther, out, active_chat_id, cancel_streaming, store>>

\* Local runtime branch, loop head: the runtime hands over the next chunk,
\* ends the stream or fails; on a chunk the cancel flag is read, and when it
\* is set cancelled is yielded and the loop is left.
NextChunk ==
    \E id \in DOMAIN streams :
        /\ StreamAt(id, "next_chunk")
        /\ \/ /\ streams[id].n < MaxChunks
              /\ IF cancel_streaming
                 THEN /\ out' = Written(Event(id, "cancelled", "", streams[id].chat_id))
                      /\ Goto(id, "save")
                 ELSE /\ UNCHANGED out
                      /\ Goto(id, "emit_token")
           \/ Goto(id, "save") /\ UNCHANGED out
           \/ Goto(id, "error") /\ UNCHANGED out
        /\ UNCHANGED <<StreamOther, active_chat_id, cancel_streaming, store>>

\* yield token, in a variant that forgets to accumulate it.
EmitToken_not_accumulated ==
    \E id \in DOMAIN streams :
        /\ StreamAt(id, "emit_token")
        /\ LET tok == TokenAt(streams[id].n + 1)
           IN  /\ out' = Written(Event(id, "token", tok, streams[id].chat_id))
               /\ streams' = [streams EXCEPT
                     ![id].pc = IF streams[id].provider = "airllm"
                                THEN "air_loop" ELSE "next_chunk",
                     ![id].n = @ + 1]
        /\ UNCHANGED <<StreamOther, active_chat_id, cancel_streaming, store>>

\* full_response += token; yield token.
EmitToken ==
    \E id \in DOMAIN streams :
        /\ StreamAt(id, "emit_token")
        /\ LET tok == TokenAt(streams[id].n + 1)
           IN  /\ out' = Written(Event(id, "token", tok, streams[id].chat_id))
               /\ streams' = [streams EXCEPT
                     ![id].pc = IF streams[id].provider = "airllm"
                                THEN "air_loop" ELSE "next_chunk",
                     ![id].n = @ + 1,
                     ![id].full_response = Append(@, tok)]
        /\ UNCHANGED <<StreamOther, active_chat_id, cancel_streaming, store>>

\* After either loop: save_message(active_chat_id, "assistant", full_response),
\* whose failure is caught by the generator's except clause.
SaveAssistant ==
    \E id \in DOMAIN streams :
        /\ StreamAt(id, "save")
        /\ \/ /\ store' = save_message(store, streams[id].chat_id, "assistant",
                                       streams[id].full_response, 0).store
              /\ Goto(id, "emit_done")
           \/ /\ UNCHANGED store               \* the file cannot be written
              /\ Goto(id, "error")
        /\ UNCHANGED <<StreamOther, out, active_chat_id, cancel_streaming>>

\* The finally clause: clear the cancel flag and the active chat id.
ChatFinally(id) ==
    /\ cancel_streaming' = FALSE
    /\ active_chat_id' = NoChat
    /\ Finish(id)

\* yield done; then the finally clause, and the generator ends.
EmitDone ==
    \E id \in DOMAIN streams :
        /\ StreamAt(id, "emit_done")
        /\ out' = Written(Event(id, "done", "", streams[id].chat_id))
        /\ ChatFinally(id)
        /\ UNCHANGED <<StreamOther, store>>

\* except Exception, in a variant that stores the partial response first.
EmitError_saves_partial ==
    \E id \in DOMAIN streams :
        /\ StreamAt(id, "error")
        /\ out' = Written(Event(id, "error", "message", streams[id].chat_id))
        /\ store' = save_message(store, streams[id].chat_id, "assistant",
                                 streams[id].full_response, 0).store
        /\ ChatFinally(id)
        /\ UNCHANGED StreamOther

\* except Exception: yield error; then the finally clause.
EmitError ==
    \E id \in DOMAIN streams :
        /\ StreamAt(id, "error")
        /\ out' = Written(Event(id, "error", "message", streams[id].chat_id))
        /\ ChatFinally(id)
        /\ UNCHANGED <<StreamOther, store>>

\* pull_model_stream: Popen, then one progress event per output line and a
\* final done event.  Popen or the pipe read may raise: nothing in the
\* generator catches that, it reaches _handle_stream's except branch, which
\* writes one frame {id, error, done: True}.
PullStep ==
    \E id \in DOMAIN streams :
        /\ StreamAt(id, "start") /\ streams[id].kind = "pull"
        /\ \/ /\ streams[id].n < MaxChunks
              /\ out' = Written(Event(id, "progress", "line", NoChat))
              /\ streams' = [streams EXCEPT ![id].n = @ + 1]
           \/ /\ out' = Written(Event(id, "done", "", NoChat))
              /\ Finish(id)
           \/ /\ out' = Written(StreamFailure(id))
              /\ Finish(id)
        /\ UNCHANGED <<StreamOther, active_chat_id, cancel_streaming, store>>

(***************************************************************************)
(* SpecStream: the reader thread and the stream threads, serving chat,     *)
(* cancel_chat and pull.                                                   *)
(***************************************************************************)
StreamCmds == {"chat", "cancel_chat", "pull"}

ReadStreamRequest == ReadRequest(StreamCmds, MaxStreamRequests)

NextStream ==
    \/ ReadStreamRequest
    \/ Respond
    \/ ChatStart
    \/ AirLoop
    \/ NextChunk
    \/ EmitToken
    \/ SaveAssistant
    \/ EmitDone
    \/ EmitError
    \/ PullStep

SpecStream == Init /\ [][NextStream]_vars

(***************************************************************************)
(* SpecPrompt: chat requests served one after the other, each followed     *)
(* from the handler's save_message to the build_prompt call of its         *)
(* chat_stream, with the replies saved in between.                         *)
(***************************************************************************)
\* What the user may type.
UserMessages == {<<"hello">>, <<"again">>}

PromptComponent(type, content) == [type |-> type, content |-> content]

\* The components the history contributes: one per message whose role is
\* user or assistant, in order.
RECURSIVE history_components(_)
history_components(chat_history) ==
    IF chat_history = <<>> THEN <<>>
    ELSE LET msg == Head(chat_history)
         IN  (IF msg.role \in {"user", "assistant"}
              THEN <<PromptComponent(msg.role, msg.content)>> ELSE <<>>)
             \o history_components(Tail(chat_history))

\* build_prompt with no memory, repository, web or file context: the system
\* prompt, the history, then the current user message.
build_prompt(user_message, chat_history) ==
    <<PromptComponent("system", <<"rules">>)>>
        \o history_components(chat_history)
        \o <<PromptComponent("user", user_message)>>

PromptOther == <<guardVars, rateVars, now, ioVars, streams, wireVars, recent,
                 airVars, fileVars, netVars>>

\* dispatch("chat") and its chat_stream as far as build_prompt: the user
\* message is saved, the flags are set, the history is loaded from the
\* store and handed to build_prompt with the same message.
ChatPrompt ==
    \E chat_id \in {NoChat} \cup DOMAIN store : \E prompt \in UserMessages :
        LET uuid == Cardinality(DOMAIN store) + 1
            sm == save_message(store, chat_id, "user", prompt, uuid)
            previous_messages == get_messages(sm.store, sm.chat_id)
        IN  /\ chat_id = NoChat => Cardinality(DOMAIN store) < MaxChats
            /\ Len(get_messages(store, sm.chat_id)) < MaxTurns
            /\ store' = sm.store
            /\ cancel_streaming' = FALSE
            /\ active_chat_id' = sm.chat_id
            /\ last' = [op |-> "build_prompt", chat_id |-> sm.chat_id,
                        user_message |-> prompt,
                        earlier |-> get_messages(store, sm.chat_id),
                        components |-> build_prompt(prompt, previous_messages)]
            /\ UNCHANGED PromptOther

\* The rest of chat_stream: the reply is saved to the conversation and the
\* finally clause clears the flags.
ChatReply ==
    /\ active_chat_id # NoChat
    /\ Len(get_messages(store, active_chat_id)) < MaxTurns
    /\ store' = save_message(store, active_chat_id, "assistant", <<"tok">>, 0).store
    /\ cancel_streaming' = FALSE
    /\ active_chat_id' = NoChat
    /\ last' = [op |-> "reply_saved"]
    /\ UNCHANGED PromptOther

NextPrompt ==
    \/ ChatPrompt
    \/ ChatReply

SpecPrompt == Init /\ [][NextPrompt]_vars

(***************************************************************************)
(* SpecCancel: the reader thread and the stream threads serving chat       *)
(* requests and then a cancel_chat, the last request the host writes.      *)
(***************************************************************************)
ReadCancelRequest ==
    \/ ReadRequest({"chat"}, MaxCancelRequests - 1)
    \/ nread = MaxCancelRequests - 1 /\ ReadRequest({"cancel_chat"}, MaxCancelRequests)

NextCancel ==
    \/ ReadCancelRequest
    \/ Respond
    \/ ChatStart
    \/ AirLoop
    \/ NextChunk
    \/ EmitToken
    \/ SaveAssistant
    \/ EmitDone
    \/ EmitError

SpecCancel == Init /\ [][NextCancel]_vars

(***************************************************************************)
(* SpecWire: sys.stdout write by write.  Every emitter sends its frames    *)
(* through IpcHandler.send_raw: json.dumps, then, holding IpcHandler.lock, *)
(* print(output, file=stdout, flush=True), which writes the text and then  *)
(* the line end.  The reader thread also runs the handlers, and the        *)
(* analyze_repository handler prints a traceback with a bare print().      *)
(***************************************************************************)
Chunk(e, what, via) == [by |-> e, what |-> what, via |-> via]

EmitterAt(e, pc) == emitters[e].pc = pc

WireGoto(e, pc) == emitters' = [emitters EXCEPT ![e].pc = pc]

WireOther == <<guardVars, rateVars, now, ioVars, chatVars, recent, last, airVars, fileVars, netVars>>

\* send_raw, json.dumps(obj): the text of the frame, or an exception, which
\* send_raw reports on stderr and the frame is dropped.
Serialize ==
    \E e \in Emitters :
        /\ EmitterAt(e, "idle")
        /\ emitters[e].sent < MaxFrames
        /\ \/ WireGoto(e, "acquire")
           \/ emitters' = [emitters EXCEPT ![e].sent = @ + 1]
        /\ UNCHANGED <<WireOther, lock, stdout>>

\* with self.lock: blocks until the lock is free.
Acquire ==
    \E e \in Emitters :
        /\ EmitterAt(e, "acquire")
        /\ lock = None
        /\ lock' = e
        /\ WireGoto(e, "write_text")
        /\ UNCHANGED <<WireOther, stdout>>

\* print: file.write(output).
WriteText ==
    \E e \in Emitters :
        /\ EmitterAt(e, "write_text")
        /\ stdout' = Append(stdout, Chunk(e, "frame", "send_raw"))
        /\ WireGoto(e, "write_end")
        /\ UNCHANGED <<WireOther, lock>>

\* print: file.write("\n"), then the flush.
WriteEnd ==
    \E e \in Emitters :
        /\ EmitterAt(e, "write_end")
        /\ stdout' = Append(stdout, Chunk(e, "newline", "send_raw"))
        /\ WireGoto(e, "release")
        /\ UNCHANGED <<WireOther, lock>>

\* Leaving the with block releases the lock.
Release ==
    \E e \in Emitters :
        /\ EmitterAt(e, "release")
        /\ lock' = None
        /\ emitters' = [emitters EXCEPT ![e].pc = "idle", ![e].sent = @ + 1]
        /\ UNCHANGED <<WireOther, stdout>>

\* The reader thread, inside dispatch: the analysis raised, and the except
\* branch prints the traceback: file.write(text) on sys.stdout, no lock.
PrintTraceback ==
    /\ EmitterAt("reader", "idle")
    /\ emitters["reader"].sent < MaxFrames
    /\ stdout' = Append(stdout, Chunk("reader", "traceback", "print"))
    /\ WireGoto("reader", "print_end")
    /\ UNCHANGED <<WireOther, lock>>

\* The line end of that print; the handler then returns and the reply follows.
PrintEnd ==
    /\ EmitterAt("reader", "print_end")
    /\ stdout' = Append(stdout, Chunk("reader", "newline", "print"))
    /\ WireGoto("reader", "acquire")
    /\ UNCHANGED <<WireOther, lock>>

NextWire ==
    \/ Serialize
    \/ Acquire
    \/ WriteText
    \/ WriteEnd
    \/ Release
    \/ PrintTraceback
    \/ PrintEnd

SpecWire == Init /\ [][NextWire]_vars

(***************************************************************************)
(* SpecGuard: the PermissionGuard object driven through its methods, as    *)
(* the dispatcher and test_permission_guard.py drive it.  last is the most *)
(* recent call and, for check, its answer.                                 *)
(***************************************************************************)
AllCmds == ALWAYS_ALLOWED \cup DOMAIN REQUIRED_PERMISSIONS \cup UnlistedCmds

GuardCall(op, cmd, allowed) == [op |-> op, cmd |-> cmd, allowed |-> allowed]

GuardOther == <<rateVars, now, ioVars, chatVars, wireVars, recent, airVars, fileVars, netVars>>

GrantPermission ==
    \E p \in Permissions :
        /\ granted_permissions' = grant_permission(p, granted_permissions)
        /\ last' = GuardCall("grant_permission", p, TRUE)
        /\ UNCHANGED <<enabled, GuardOther>>

RevokePermission ==
    \E p \in Permissions :
        /\ granted_permissions' = revoke_permission(p, granted_permissions)
        /\ last' = GuardCall("revoke_permission", p, TRUE)
        /\ UNCHANGED <<enabled, GuardOther>>

ClearAllPermissions ==
    /\ granted_permissions' = clear_all_permissions(granted_permissions)
    /\ last' = GuardCall("clear_all_permissions", "", TRUE)
    /\ UNCHANGED <<enabled, GuardOther>>

GuardDisable ==
    /\ enabled' = FALSE
    /\ last' = GuardCall("disable", "", TRUE)
    /\ UNCHANGED <<granted_permissions, GuardOther>>

GuardEnable ==
    /\ enabled' = TRUE
    /\ last' = GuardCall("enable", "", TRUE)
    /\ UNCHANGED <<granted_permissions, GuardOther>>

GuardCheck ==
    \E cmd \in AllCmds : \E payload \in AnyPayloads :
        /\ last' = GuardCall("check", cmd,
                             check(cmd, payload, enabled, granted_permissions).allowed)
        /\ UNCHANGED <<guardVars, GuardOther>>

NextGuard ==
    \/ GrantPermission
    \/ RevokePermission
    \/ ClearAllPermissions
    \/ GuardDisable
    \/ GuardEnable
    \/ GuardCheck

SpecGuard == Init /\ [][NextGuard]_vars

(***************************************************************************)
(* SpecTable: command names followed through the guard and the if-chain of *)
(* dispatch while permissions are granted and revoked.                     *)
(***************************************************************************)
\* The commands the if-chain of dispatch has a branch for (the memory and
\* project branches stand under `if memory_service:` and `if project_service:`,
\* both modules are part of the worker).
Handlers ==
    {"health_check", "cancel_chat", "shutdown", "get_system_stats", "get_monitoring",
     "set_startup", "load_settings", "save_settings", "web_search_available",
     "pull", "get_models", "delete_model",
     "airllm_list_models", "airllm_status", "airllm_enable", "airllm_reload",
     "airllm_disable", "airllm_set_active_model",
     "list_conversations", "get_conversation_messages", "get_conversation_metadata",
     "delete_conversation", "chat_history_set_crypto_password", "chat",
     "tunnel_check_cloudflared", "tunnel_install_cloudflared",
     "tunnel_install_progress", "tunnel_get_status", "tunnel_generate_token",
     "tunnel_start", "tunnel_stop", "tunnel_get_qr", "tunnel_add_allowed_ip",
     "tunnel_remove_allowed_ip", "tunnel_validate_token",
     "tunnel_validate_custom_token", "tunnel_set_custom_token",
     "tunnel_set_named_tunnel", "tunnel_get_qr_with_token",
     "memory_save", "memory_get", "memory_list", "memory_delete",
     "memory_clear_session", "memory_set_crypto_password",
     "analyze_repository", "get_repo_summary", "detect_tech_debt",
     "grant_permission", "revoke_permission", "has_permission",
     "rate_limiter_is_blocked", "rate_limiter_get_blocked", "rate_limiter_set_limit",
     "rate_limiter_get_limits", "rate_limiter_reset", "rate_limiter_get_stats",
     "update_conversation_project",
     "projects_list", "projects_get", "projects_create", "projects_update",
     "projects_delete", "projects_add_repo", "projects_remove_repo",
     "projects_get_or_create_orphan"}

\* dispatch(cmd, payload) for a small dict payload of a client below its rate
\* limit, followed as far as the branch it ends in: refused by the guard, a
\* handler of the chain, or the raise at the end of the chain.
DispatchName ==
    \E cmd \in AllCmds \cup Handlers :
        LET g == check(cmd, SmallPayload, enabled, granted_permissions)
            outcome == IF ~g.allowed THEN "PERMISSION_DENIED"
                       ELSE IF cmd \in Handlers THEN "handler"
                       ELSE "Unknown command"
        IN  /\ last' = [op |-> "dispatch_name", cmd |-> cmd, outcome |-> outcome]
            /\ UNCHANGED <<guardVars, GuardOther>>

NextTable ==
    \/ GrantPermission
    \/ RevokePermission
    \/ DispatchName

SpecTable == Init /\ [][NextTable]_vars

(***************************************************************************)
(* SpecRate: the RateLimiter object driven through check_limit while time  *)
(* passes.  recent is kept by the observer, not by the limiter: on every   *)
(* allowed request its instant is added, and instants older than           *)
(* time_window are forgotten as the clock advances.                        *)
(***************************************************************************)
RateSpecCmds == {"tunnel_validate_custom_token", "analyze_repository"}
RateSpecClients == {"unknown"}

InWindow(instants, t) == SelectSeq(instants, LAMBDA x : x >= t - time_window)

RateOther == <<guardVars, limits, ioVars, chatVars, wireVars, airVars, fileVars, netVars>>

CheckLimit ==
    /\ IF last.op = "none" THEN TRUE ELSE last.n < MaxCalls
    /\ \E cmd \in RateSpecCmds : \E ip \in RateSpecClients :
          LET r == check_limit(cmd, ip, limits, request_history, blocked_ips, now)
          IN  /\ request_history' = r.history
              /\ blocked_ips' = r.blocked
              /\ recent' = IF r.allowed
                           THEN [recent EXCEPT ![cmd][ip] = Append(@, now)]
                           ELSE recent
              /\ last' = [op |-> "check_limit",
                          n |-> IF last.op = "none" THEN 1 ELSE last.n + 1,
                          cmd |-> cmd, ip |-> ip,
                          allowed |-> r.allowed, retry_after |-> r.retry_after,
                          was_blocked |-> is_blocked(ip, blocked_ips, now),
                          expired |-> ip \in DOMAIN blocked_ips
                                         /\ ~is_blocked(ip, blocked_ips, now),
                          blocked_by |-> IF r.allowed THEN None
                                         ELSE IF is_blocked(ip, blocked_ips, now)
                                         THEN last.blocked_by
                                         ELSE cmd,
                          prior |-> Len(recent[cmd][ip])]
    /\ UNCHANGED <<RateOther, now>>

RateTick ==
    /\ \E d \in {time_window - 1, time_window, time_window + 1, block_duration - time_window} :
          /\ now + d <= MaxTime
          /\ now' = now + d
          /\ recent' = [c \in RateCmds |-> [ip \in ClientIds |->
                            InWindow(recent[c][ip], now + d)]]
    /\ UNCHANGED <<RateOther, request_history, blocked_ips, last>>

NextRate ==
    \/ CheckLimit
    \/ RateTick

SpecRate == Init /\ [][NextRate]_vars

(***************************************************************************)
(* SpecLoop: Worker.run over every kind of line stdin can carry, with the  *)
(* telemetry thread (_monitor_loop) beside it.                             *)
(***************************************************************************)
\* The id of the telemetry frames ("SYSTEM_STATS" in the source).
SYSTEM_STATS == 0

\* http_start requires RemoteAccess and has no handler in dispatch.
LoopCmds == {"health_check", "http_start", "grant_permission", "shutdown"}

ReadLoopRequest == ReadRequest(LoopCmds, MaxLoopRequests)
ReadLoopMalformed == ReadMalformed(MaxLoopRequests)

\* A line that is JSON but not an object (a list, a string, a number, null):
\* request.get raises AttributeError outside the inner try, the exception
\* leaves run through its finally clause and the process dies.
ReadNonObject ==
    /\ reader.pc = "read"
    /\ nread < MaxLoopRequests
    /\ nread' = nread + 1
    /\ reader' = [reader EXCEPT !.pc = "crashed"]
    /\ running' = FALSE
    /\ UNCHANGED <<guardVars, rateVars, now, out, chatVars, wireVars, recent, last,
                   airVars, fileVars, netVars>>

\* One round of _monitor_loop: dispatch get_system_stats with an empty payload
\* and push what it returns under the id SYSTEM_STATS.
MonitorPush ==
    /\ running
    /\ emitters["telemetry"].sent < MaxFrames
    /\ LET pf == Preflight("get_system_stats", SmallPayload)
           res == IF pf.res.data = "pass" THEN Value("stats") ELSE pf.res
       IN  /\ request_history' = pf.rate.history
           /\ blocked_ips' = pf.rate.blocked
           /\ out' = Written(send_response(SYSTEM_STATS, "ok", res.data, res.code))
    /\ emitters' = [emitters EXCEPT !["telemetry"].sent = @ + 1]
    /\ UNCHANGED <<guardVars, limits, now, nread, reader, running, chatVars, lock,
                   stdout, recent, last, airVars, fileVars, netVars>>

NextLoop ==
    \/ ReadLoopRequest
    \/ ReadLoopMalformed
    \/ ReadNonObject
    \/ Respond
    \/ Eof
    \/ MonitorPush

SpecLoop == Init /\ [][NextLoop]_vars

(***************************************************************************)
(* SpecMonitor: Worker._monitor_loop pass by pass, next to the read loop.  *)
(* A pass is the try block (dispatch of get_system_stats, send_response)   *)
(* and then time.sleep(2); the handler may raise, which the except clause  *)
(* of the loop catches, and the write may fail, which send_raw catches.    *)
(***************************************************************************)
\* The try block of one pass, with what happened in it.
MonitorTry(outcome) ==
    /\ running
    /\ EmitterAt("telemetry", "idle")
    /\ emitters["telemetry"].sent < MaxFrames
    /\ LET pf == Preflight("get_system_stats", SmallPayload)
           res == IF pf.res.data = "pass" THEN Value("stats") ELSE pf.res
       IN  /\ request_history' = pf.rate.history
           /\ blocked_ips' = pf.rate.blocked
           /\ outcome = "stats_raise" => pf.res.data = "pass"
           /\ IF outcome = "ok"
              THEN /\ out' = Written(send_response(SYSTEM_STATS, "ok", res.data, res.code))
                   /\ emitters' = [emitters EXCEPT !["telemetry"].pc = "sleep",
                                                   !["telemetry"].sent = @ + 1]
              ELSE /\ UNCHANGED out
                   /\ emitters' = [emitters EXCEPT !["telemetry"].pc = "failed"]
    /\ last' = [op |-> "monitor", outcome |-> outcome,
                failed_before |-> /\ last.op = "monitor"
                                  /\ (last.outcome # "ok" \/ last.failed_before)]
    /\ UNCHANGED <<guardVars, limits, now, nread, reader, running, chatVars, lock,
                   stdout, recent, airVars, fileVars, netVars>>

MonitorOk == MonitorTry("ok")

\* get_monitoring_info raises: the except clause prints to stderr.
MonitorStatsRaise == MonitorTry("stats_raise")

\* print(output, file=stdout, flush=True) raises inside send_raw, which
\* prints to stderr and returns.
MonitorWriteFail == MonitorTry("write_fail")

\* time.sleep(2), in a variant where the except clause ends the thread.
MonitorSleep_only_after_success ==
    /\ EmitterAt("telemetry", "sleep")
    /\ WireGoto("telemetry", "idle")
    /\ UNCHANGED <<guardVars, rateVars, now, ioVars, chatVars, lock, stdout, recent,
                   last, airVars, fileVars, netVars>>

\* time.sleep(2) at the end of the loop body, reached from the try block
\* and from the except clause alike; then the loop tests running again.
MonitorSleep ==
    /\ emitters["telemetry"].pc \in {"sleep", "failed"}
    /\ WireGoto("telemetry", "idle")
    /\ UNCHANGED <<guardVars, rateVars, now, ioVars, chatVars, lock, stdout, recent,
                   last, airVars, fileVars, netVars>>

NextMonitor ==
    \/ ReadLoopRequest
    \/ Respond
    \/ Eof
    \/ MonitorOk
    \/ MonitorStatsRaise
    \/ MonitorWriteFail
    \/ MonitorSleep

\* The thread is scheduled, and the handler and the pipe do not fail for ever.
SpecMonitor ==
    Init /\ [][NextMonitor]_vars /\ WF_vars(MonitorSleep) /\ SF_vars(MonitorOk)

(***************************************************************************)
(* SpecAir: the sidecar supervisor (AirLLMManager) with the threads that   *)
(* run its code: the thread calling enable / reload / disable (the worker's*)
(* reader thread, through dispatch), the stream threads calling generate,  *)
(* one reader thread and one load-timeout watcher per enable, and the      *)
(* sidecar processes themselves (airllm_sidecar.py).                       *)
(*                                                                         *)
(* status_lock is held by the thread inside disable, between its two       *)
(* halves; the code of enable after its first check, _send, and the        *)
(* timeout branch of generate touch the fields without it.                 *)
(***************************************************************************)
AirOther == <<guardVars, rateVars, now, ioVars, chatVars, wireVars, recent, last, fileVars, netVars>>

StatusLockFree ==
    /\ main.pc # "disable_2"
    /\ \A c \in Callers : callers[c].pc # "disable_2"
    /\ \A n \in DOMAIN watchers : watchers[n] # "disable_2"

\* subprocess.Popen of airllm_sidecar.py: the process is loading its model.
NewProcess(model) ==
    [alive |-> TRUE, model |-> model, phase |-> "loading", loaded |-> FALSE,
     inbox |-> <<>>, outbox |-> <<>>]

StatusFrame(status) == [type |-> "status", status |-> status, id |-> NoCaller, ok |-> FALSE]
ResponseFrame(id, ok) == [type |-> "response", status |-> "", id |-> id, ok |-> ok]

\* _handle_message: a status frame sets the status whatever it was; a response
\* is stored in the pending entry of its id and the entry's event is set, and
\* is dropped when no entry has that id.
handle_message(a, cs, frame) ==
    IF frame.type = "status"
    THEN [air |-> [a EXCEPT !.status = frame.status,
                            !.ready_event = TRUE,
                            !.last_error = IF frame.status = "ERROR" THEN "load error" ELSE @],
          callers |-> cs]
    ELSE IF frame.id \in DOMAIN a.pending
    THEN [air |-> [a EXCEPT !.pending[frame.id] = IF frame.ok THEN "text" ELSE "error"],
          callers |-> [cs EXCEPT ![frame.id].event = cs[frame.id].pc # "done"]]
    ELSE [air |-> a, callers |-> cs]

\* _handle_process_exit: nothing when the status is OFF; otherwise OFF or
\* ERROR, ready_event set, every pending entry failed and the map emptied.
handle_process_exit(a, cs) ==
    IF a.status = "OFF" THEN [air |-> a, callers |-> cs]
    ELSE LET err == IF a.status # "READY" /\ a.last_error = None
                    THEN "AirLLM process exited" ELSE a.last_error
         IN  [air |-> [a EXCEPT !.last_error = err,
                                !.status = IF err # None THEN "ERROR" ELSE "OFF",
                                !.ready_event = TRUE,
                                !.pending = <<>>],
              callers |-> [c \in Callers |->
                              IF c \in DOMAIN a.pending /\ cs[c].pc # "done"
                              THEN [cs[c] EXCEPT !.event = TRUE] ELSE cs[c]]]

\* gen_lock.acquire(timeout=1.0) of a lock nobody checks.
gen_lock_acquire_always(a, c) == TRUE

\* gen_lock.acquire(timeout=1.0): succeeds when the lock is free.
gen_lock_acquire(a, c) == a.gen_lock = NoCaller

\* A timeout branch that leaves the entry in the pending map.
generate_timeout_keep_entry(a, c) ==
    [a EXCEPT !.last_error = "Generation timeout", !.gen_lock = NoCaller]

\* generate, event.wait timed out: the entry is popped, last_error written,
\* and the finally clause releases gen_lock.
generate_timeout(a, c) ==
    [a EXCEPT !.pending = IF c \in DOMAIN @ THEN Without(@, c) ELSE @,
              !.last_error = "Generation timeout", !.gen_lock = NoCaller]

\* ---- the thread calling enable / reload / disable ----
\* enable(model) up to its call of disable; reload is the same call.
MainEnable ==
    /\ main.pc = "idle"
    /\ main.calls < MaxAirCalls
    /\ Cardinality(DOMAIN procs) < MaxSpawn
    /\ StatusLockFree
    /\ \E m \in Models :
          IF air.status = "LOADING" \/ (air.status = "READY" /\ air.model_id = m)
          THEN main' = [main EXCEPT !.calls = @ + 1]
          ELSE main' = [pc |-> "disable_1", model |-> m, after |-> "spawn",
                        calls |-> main.calls + 1]
    /\ UNCHANGED <<AirOther, air, procs, callers, readers, watchers>>

\* disable() called through dispatch (airllm_disable).
MainDisable ==
    /\ main.pc = "idle"
    /\ main.calls < MaxAirCalls
    /\ main' = [pc |-> "disable_1", model |-> None, after |-> "idle",
                calls |-> main.calls + 1]
    /\ UNCHANGED <<AirOther, air, procs, callers, readers, watchers>>

MainDisableKill ==
    /\ main.pc = "disable_1"
    /\ StatusLockFree
    /\ procs' = disable_kill(air, procs)
    /\ main' = [main EXCEPT !.pc = "disable_2"]
    /\ UNCHANGED <<AirOther, air, callers, readers, watchers>>

MainDisableClear ==
    /\ main.pc = "disable_2"
    /\ air' = disable_clear(air)
    /\ main' = [main EXCEPT !.pc = main.after, !.after = "idle",
                            !.model = IF main.after = "idle" THEN None ELSE @]
    /\ UNCHANGED <<AirOther, procs, callers, readers, watchers>>

\* enable: subprocess.Popen and the assignment of self.process, or its failure.
MainSpawn ==
    /\ main.pc = "spawn"
    /\ \/ LET pid == Cardinality(DOMAIN procs) + 1
          IN  /\ procs' = With(procs, pid, NewProcess(main.model))
              /\ air' = [air EXCEPT !.process = pid]
              /\ main' = [main EXCEPT !.pc = "reset"]
       \/ /\ air' = [air EXCEPT !.last_error = "Popen failed", !.status = "ERROR"]
          /\ main' = [main EXCEPT !.pc = "idle", !.model = None]
          /\ UNCHANGED procs
    /\ UNCHANGED <<AirOther, callers, readers, watchers>>

\* enable: _reset_state("LOADING"), model_id, _start_reader and the watcher
\* thread.  A watcher still inside ready_event.wait was woken by the set()
\* of the disable that came before.
MainReset ==
    /\ main.pc = "reset"
    /\ air' = [reset_state(air, "LOADING") EXCEPT !.model_id = main.model]
    /\ LET n == Cardinality(DOMAIN readers) + 1
       IN  /\ readers' = With(readers, n, [pc |-> "start", pid |-> NoProcess])
           /\ watchers' = With([k \in DOMAIN watchers |->
                                    IF watchers[k] = "wait" /\ air.ready_event
                                    THEN "done" ELSE watchers[k]],
                               n, "wait")
    /\ main' = [main EXCEPT !.pc = "idle", !.model = None]
    /\ UNCHANGED <<AirOther, procs, callers>>

\* ---- the sidecar process (AirLLMSidecar.serve) ----
SidecarLoad ==
    \E pid \in DOMAIN procs :
        /\ procs[pid].alive /\ procs[pid].phase = "loading"
        /\ \E ok \in BOOLEAN :
              procs' = [procs EXCEPT ![pid].phase = "serving", ![pid].loaded = ok,
                            ![pid].outbox = Append(@, StatusFrame(IF ok THEN "READY"
                                                                   ELSE "ERROR"))]
        /\ UNCHANGED <<AirOther, air, main, callers, readers, watchers>>

SidecarServe ==
    \E pid \in DOMAIN procs :
        /\ procs[pid].alive /\ procs[pid].phase = "serving"
        /\ procs[pid].inbox # <<>>
        /\ procs' = [procs EXCEPT
                        ![pid].inbox = Tail(@),
                        ![pid].outbox = Append(@, ResponseFrame(Head(procs[pid].inbox),
                                                                procs[pid].loaded))]
        /\ UNCHANGED <<AirOther, air, main, callers, readers, watchers>>

\* The process exits by itself (a crash, the OS killing it).
SidecarCrash ==
    \E pid \in DOMAIN procs :
        /\ procs[pid].alive
        /\ procs' = [procs EXCEPT ![pid].alive = FALSE, ![pid].inbox = <<>>]
        /\ UNCHANGED <<AirOther, air, main, callers, readers, watchers>>

\* ---- the reader threads (_start_reader._reader) ----
\* The thread starts: it reads self.process, and runs _handle_process_exit at
\* once when the field is None.
ReaderStart ==
    \E n \in DOMAIN readers :
        /\ readers[n].pc = "start"
        /\ IF air.process = NoProcess
           THEN /\ StatusLockFree
                /\ air' = handle_process_exit(air, callers).air
                /\ callers' = handle_process_exit(air, callers).callers
                /\ readers' = [readers EXCEPT ![n].pc = "done"]
           ELSE /\ readers' = [readers EXCEPT ![n] = [pc |-> "read", pid |-> air.process]]
                /\ UNCHANGED <<air, callers>>
        /\ UNCHANGED <<AirOther, procs, main, watchers>>

\* One line of the process's stdout: _handle_message.
ReaderMessage ==
    \E n \in DOMAIN readers :
        LET pid == readers[n].pid IN
        /\ readers[n].pc = "read"
        /\ procs[pid].outbox # <<>>
        /\ LET frame == Head(procs[pid].outbox)
               h == handle_message(air, callers, frame)
           IN  /\ frame.type = "status" => StatusLockFree
               /\ air' = h.air
               /\ callers' = h.callers
        /\ procs' = [procs EXCEPT ![pid].outbox = Tail(@)]
        /\ UNCHANGED <<AirOther, main, readers, watchers>>

\* The process's stdout is at its end: _handle_process_exit.
ReaderExit ==
    \E n \in DOMAIN readers :
        LET pid == readers[n].pid IN
        /\ readers[n].pc = "read"
        /\ procs[pid].outbox = <<>> /\ ~procs[pid].alive
        /\ StatusLockFree
        /\ air' = handle_process_exit(air, callers).air
        /\ callers' = handle_process_exit(air, callers).callers
        /\ readers' = [readers EXCEPT ![n].pc = "done"]
        /\ UNCHANGED <<AirOther, procs, main, watchers>>

\* ---- the load-timeout watchers (_watch_load_timeout) ----
\* ready_event.wait timed out: last_error is written, disable is called.
WatcherTimeout ==
    \E n \in DOMAIN watchers :
        /\ watchers[n] = "wait"
        /\ ~air.ready_event
        /\ air' = [air EXCEPT !.last_error = "Load timeout"]
        /\ watchers' = [watchers EXCEPT ![n] = "disable_1"]
        /\ UNCHANGED <<AirOther, procs, main, callers, readers>>

WatcherDisableKill ==
    \E n \in DOMAIN watchers :
        /\ watchers[n] = "disable_1"
        /\ StatusLockFree
        /\ procs' = disable_kill(air, procs)
        /\ watchers' = [watchers EXCEPT ![n] = "disable_2"]
        /\ UNCHANGED <<AirOther, air, main, callers, readers>>

WatcherDisableClear ==
    \E n \in DOMAIN watchers :
        /\ watchers[n] = "disable_2"
        /\ air' = disable_clear(air)
        /\ watchers' = [watchers EXCEPT ![n] = "done"]
        /\ UNCHANGED <<AirOther, procs, main, callers, readers>>

\* ---- the threads calling generate ----
\* generate: the status check under status_lock.  The callers run the same
\* code, so they are numbered in the order they call.
GenCheck ==
    \E c \in Callers :
        /\ callers[c].pc = "idle"
        /\ c > 1 => callers[c - 1].pc # "idle"
        /\ StatusLockFree
        /\ callers' = [callers EXCEPT ![c] =
                          IF air.status # "READY"
                          THEN Returned("not ready")
                          ELSE [@ EXCEPT !.pc = "acquire"]]
        /\ UNCHANGED <<AirOther, air, procs, main, readers, watchers>>

\* gen_lock acquired; the pending entry is created.
GenAcquire ==
    \E c \in Callers :
        /\ callers[c].pc = "acquire"
        /\ gen_lock_acquire(air, c)
        /\ air' = [air EXCEPT !.gen_lock = c, !.pending = With(@, c, None)]
        /\ callers' = [callers EXCEPT ![c].pc = "send"]
        /\ UNCHANGED <<AirOther, procs, main, readers, watchers>>

\* gen_lock not acquired within its timeout.
GenBusy ==
    \E c \in Callers :
        /\ callers[c].pc = "acquire"
        /\ ~gen_lock_acquire(air, c)
        /\ callers' = [callers EXCEPT ![c] = Returned("AirLLM is busy")]
        /\ UNCHANGED <<AirOther, air, procs, main, readers, watchers>>

\* _send: no process (returns False; generate returns and releases the lock),
\* the write succeeds, or the write raises and _send calls disable.
GenSend ==
    \E c \in Callers :
        /\ callers[c].pc = "send"
        /\ IF air.process = NoProcess
           THEN /\ callers' = [callers EXCEPT ![c] = Returned("Send failed")]
                /\ air' = [air EXCEPT !.gen_lock = NoCaller]
                /\ UNCHANGED procs
           ELSE IF procs[air.process].alive
           THEN /\ procs' = [procs EXCEPT ![air.process].inbox = Append(@, c)]
                /\ callers' = [callers EXCEPT ![c].pc = "wait", ![c].pid = air.process]
                /\ UNCHANGED air
           ELSE /\ air' = [air EXCEPT !.last_error = "write failed"]
                /\ callers' = [callers EXCEPT ![c].pc = "disable_1"]
                /\ UNCHANGED procs
        /\ UNCHANGED <<AirOther, main, readers, watchers>>

GenDisableKill ==
    \E c \in Callers :
        /\ callers[c].pc = "disable_1"
        /\ StatusLockFree
        /\ procs' = disable_kill(air, procs)
        /\ callers' = [callers EXCEPT ![c].pc = "disable_2"]
        /\ UNCHANGED <<AirOther, air, main, readers, watchers>>

\* The end of disable, then _send returns False, generate returns and its
\* finally clause releases gen_lock.
GenDisableClear ==
    \E c \in Callers :
        /\ callers[c].pc = "disable_2"
        /\ air' = [disable_clear(air) EXCEPT !.gen_lock = NoCaller]
        /\ callers' = [callers EXCEPT ![c] = Returned("Send failed")]
        /\ UNCHANGED <<AirOther, procs, main, readers, watchers>>

\* event.wait returned True: the entry is popped and its response returned.
GenResponse ==
    \E c \in Callers :
        /\ callers[c].pc = "wait"
        /\ callers[c].event
        /\ LET response == IF c \in DOMAIN air.pending THEN air.pending[c] ELSE None
           IN  callers' = [callers EXCEPT ![c] =
                              Returned(IF response = None
                                       THEN "Empty response from AirLLM"
                                       ELSE response)]
        /\ air' = [air EXCEPT !.pending = IF c \in DOMAIN @ THEN Without(@, c) ELSE @,
                              !.gen_lock = NoCaller]
        /\ UNCHANGED <<AirOther, procs, main, readers, watchers>>

\* event.wait timed out.
GenTimeout ==
    \E c \in Callers :
        /\ callers[c].pc = "wait"
        /\ ~callers[c].event
        /\ air' = generate_timeout(air, c)
        /\ callers' = [callers EXCEPT ![c] = Returned("Generation timeout")]
        /\ UNCHANGED <<AirOther, procs, main, readers, watchers>>

NextAir ==
    \/ MainEnable
    \/ MainDisable
    \/ MainDisableKill
    \/ MainDisableClear
    \/ MainSpawn
    \/ MainReset
    \/ SidecarLoad
    \/ SidecarServe
    \/ SidecarCrash
    \/ ReaderStart
    \/ ReaderMessage
    \/ ReaderExit
    \/ WatcherTimeout
    \/ WatcherDisableKill
    \/ WatcherDisableClear
    \/ GenCheck
    \/ GenAcquire
    \/ GenBusy
    \/ GenSend
    \/ GenDisableKill
    \/ GenDisableClear
    \/ GenResponse
    \/ GenTimeout

SpecAir == Init /\ [][NextAir]_vars

(***************************************************************************)
(* SpecFiles: ChatHistoryService over files that may be encrypted.  A file *)
(* is its prefix (enc: it starts with "ENC:"), the key its body was        *)
(* encrypted with, the contents of its messages and the projectId it       *)
(* holds; was_enc remembers that the file once carried the prefix.         *)
(***************************************************************************)
FileOther == <<guardVars, rateVars, now, ioVars, chatVars, wireVars, recent, last, airVars,
              netVars>>

ChatIds == 1..MaxChats
Keys == {"k1", "k2"}
Projects == {None, "p1"}

\* Message contents: a text, and a text holding a lone surrogate (what
\* json.loads gives for "\ud800"), which str.encode('utf-8') refuses.
Surrogate == "lone surrogate"
Contents == {"text", Surrogate}

\* crypto_service.encrypt_string(json_data) raises on text.encode('utf-8')
\* when a content cannot be encoded.
encrypt_string_ok(data) ==
    \A i \in 1..Len(data.messages) : data.messages[i] # Surrogate

\* crypto_service.decrypt_string: AES-GCM fails under another key, and on a
\* body that is not what encrypt_string wrote.
decrypt_string(file, key) ==
    IF file.key = key /\ ~file.corrupt THEN [ok |-> TRUE, data |-> [messages |-> file.messages,
                                                   projectId |-> file.projectId]]
    ELSE [ok |-> FALSE, data |-> [messages |-> <<>>, projectId |-> None]]

\* The file written: "ENC:" + encrypt_string(json) under key, or the JSON.
WriteFile(fs, chat_id, data, key) ==
    With(fs, chat_id,
         [enc |-> key # None, key |-> key, messages |-> data.messages,
          projectId |-> data.projectId, corrupt |-> FALSE,
          was_enc |-> key # None \/ (chat_id \in DOMAIN fs /\ fs[chat_id].was_enc)])

\* save_message(chat_id, role, content, encrypt=encrypt): the files after it.
\* When encrypt_string raises the conversation is saved in clear.
save_message_enc(fs, key, chat_id, content, encrypt) ==
    LET fresh == [messages |-> <<>>, projectId |-> None]
        exists == chat_id \in DOMAIN fs
        dec == decrypt_string(fs[chat_id], key)
        readable == exists /\ fs[chat_id].enc /\ key # None /\ dec.ok
        data == IF ~exists THEN fresh
                ELSE IF ~fs[chat_id].enc
                THEN IF fs[chat_id].corrupt THEN fresh
                     ELSE [messages |-> fs[chat_id].messages,
                           projectId |-> fs[chat_id].projectId]
                ELSE IF readable THEN dec.data
                ELSE fresh
        enc == encrypt \/ readable
        data1 == [data EXCEPT !.messages = Append(@, content)]
    IN  WriteFile(fs, chat_id, data1,
                  IF enc /\ key # None /\ encrypt_string_ok(data1) THEN key ELSE None)

\* get_messages(chat_id): the contents of the messages, or the empty list
\* when the file is missing or cannot be decrypted.
get_messages_enc(fs, key, chat_id) ==
    IF chat_id \notin DOMAIN fs THEN <<>>
    ELSE IF ~fs[chat_id].enc
    THEN IF fs[chat_id].corrupt THEN <<>> ELSE fs[chat_id].messages
    ELSE IF key = None \/ ~decrypt_string(fs[chat_id], key).ok THEN <<>>
    ELSE decrypt_string(fs[chat_id], key).data.messages

\* update_conversation_project(chat_id, project_id): the files after it; an
\* encrypted file that cannot be decrypted is left alone (returns False).
update_conversation_project(fs, key, chat_id, project_id) ==
    IF chat_id \notin DOMAIN fs THEN fs
    ELSE IF fs[chat_id].enc
    THEN IF key = None \/ ~decrypt_string(fs[chat_id], key).ok THEN fs
         ELSE WriteFile(fs, chat_id,
                        [decrypt_string(fs[chat_id], key).data EXCEPT !.projectId = project_id],
                        key)
    ELSE IF fs[chat_id].corrupt THEN fs
    ELSE WriteFile(fs, chat_id,
                   [messages |-> fs[chat_id].messages, projectId |-> project_id], None)

\* One entry of the listing.
HistoryEntry(chat_id, data, is_encrypted) ==
    [id |-> chat_id, message_count |-> Len(data.messages), encrypted |-> is_encrypted]

\* The body of the loop of list_conversations for one file: the entry to
\* append, or skip when the code reaches "continue" (no key, decryption
\* failed, or the except branch for a file that is not JSON).
read_file_listed_when_corrupt(fs, key, filename) ==
    LET is_encrypted == fs[filename].enc
        skipped == [skip |-> TRUE, entry |-> HistoryEntry(filename, [messages |-> <<>>], FALSE)]
    IN  IF is_encrypted
        THEN IF key = None THEN skipped
             ELSE IF ~decrypt_string(fs[filename], key).ok THEN skipped
             ELSE [skip |-> FALSE,
                   entry |-> HistoryEntry(filename, decrypt_string(fs[filename], key).data, TRUE)]
        ELSE [skip |-> FALSE, entry |-> HistoryEntry(filename, fs[filename], FALSE)]

read_file(fs, key, filename) ==
    LET is_encrypted == fs[filename].enc
        skipped == [skip |-> TRUE, entry |-> HistoryEntry(filename, [messages |-> <<>>], FALSE)]
    IN  IF is_encrypted
        THEN IF key = None THEN skipped
             ELSE IF ~decrypt_string(fs[filename], key).ok THEN skipped
             ELSE [skip |-> FALSE,
                   entry |-> HistoryEntry(filename, decrypt_string(fs[filename], key).data, TRUE)]
        ELSE IF fs[filename].corrupt THEN skipped
        ELSE [skip |-> FALSE, entry |-> HistoryEntry(filename, fs[filename], FALSE)]

\* The loop of list_conversations over the files still to read, in the order
\* of their names.
RECURSIVE list_loop(_, _, _, _)
list_loop(fs, key, todo, history) ==
    IF todo = {} THEN history
    ELSE LET filename == CHOOSE x \in todo : \A y \in todo : x <= y
             read == read_file(fs, key, filename)
         IN  list_loop(fs, key, todo \ {filename},
                       IF read.skip THEN history ELSE Append(history, read.entry))

\* list_conversations(): the entries of the files that could be read.  The
\* files carry no dates here, so the entries stay in the order of the loop.
list_conversations(fs, key) == list_loop(fs, key, DOMAIN fs, <<>>)

\* chat_history_set_crypto_password: the master key is derived from the password.
SetPassword ==
    /\ \E k \in Keys : master_key' = k
    /\ UNCHANGED <<FileOther, files>>

\* The worker is started again: the files stay, the key is not set.
Restart ==
    /\ master_key # None
    /\ master_key' = None
    /\ UNCHANGED <<FileOther, files>>

\* last records the call, for the claims about what was saved.
SaveMessage ==
    /\ \E chat_id \in ChatIds : \E content \in Contents : \E encrypt \in BOOLEAN :
          /\ chat_id \in DOMAIN files => Len(files[chat_id].messages) < MaxMessages
          /\ files' = save_message_enc(files, master_key, chat_id, content, encrypt)
          /\ last' = [op |-> "save_message", chat_id |-> chat_id, content |-> content,
                      encrypt |-> encrypt, key |-> master_key]
    /\ UNCHANGED <<guardVars, rateVars, now, ioVars, chatVars, wireVars, recent, airVars,
                   master_key, netVars>>

UpdateConversationProject ==
    /\ \E chat_id \in ChatIds : \E project_id \in Projects :
          files' = update_conversation_project(files, master_key, chat_id, project_id)
    /\ UNCHANGED <<FileOther, master_key>>

\* chat_history_list: last records what the call returned.
ListConversations ==
    /\ last' = [op |-> "list_conversations",
                result |-> list_conversations(files, master_key)]
    /\ UNCHANGED <<guardVars, rateVars, now, ioVars, chatVars, wireVars, recent, airVars,
                   fileVars, netVars>>

\* A file of the storage directory is damaged on disk: what is left of it is
\* not JSON, or not the output of encrypt_string; the "ENC:" prefix stays.
CorruptFile ==
    /\ \E chat_id \in DOMAIN files :
          /\ ~files[chat_id].corrupt
          /\ files' = [files EXCEPT ![chat_id] =
                          [enc |-> @.enc, key |-> None, messages |-> <<>>,
                           projectId |-> None, corrupt |-> TRUE, was_enc |-> @.was_enc]]
    /\ UNCHANGED <<FileOther, master_key>>

NextFiles ==
    \/ SetPassword
    \/ Restart
    \/ SaveMessage
    \/ UpdateConversationProject
    \/ ListConversations
    \/ CorruptFile

SpecFiles == Init /\ [][NextFiles]_vars

(***************************************************************************)
(* Remote access: TunnelService, RemoteAccessServer and the HTTP handler.  *)
(***************************************************************************)
NetOther == <<guardVars, rateVars, now, ioVars, chatVars, wireVars, recent, airVars, fileVars>>

\* expires_hours as the dispatcher lets it through (1 to 720 hours).
ExpiresHours == 1..MaxHours

\* generate_auth_token: the hash is kept in the configuration and saved.
generate_auth_token(config, raw_token, expires_hours, t) ==
    [config EXCEPT !.auth_token = sha256(raw_token),
                   !.token_created_at = <<t>>,
                   !.token_expires_hours = expires_hours]

\* validate_token at hour t under the master key of the crypto_service.
validate_token(config, key, t, token) ==
    IF token = "" \/ config.auth_token = NoToken
    THEN [valid |-> FALSE, reason |-> "No token configured"]
    ELSE IF config.auth_token.kind = "ENC" /\ key = None
    THEN [valid |-> FALSE, reason |-> "Token encrypted but master key not configured"]
    ELSE IF config.auth_token.kind = "ENC" /\ config.auth_token.key # key
    THEN [valid |-> FALSE, reason |-> "Token decryption failed"]
    ELSE LET stored_token_hash == sha256(config.auth_token.token)
         IN  IF sha256(token) # stored_token_hash
             THEN [valid |-> FALSE, reason |-> "Invalid token"]
             ELSE IF /\ config.token_created_at # <<>>
                     /\ config.token_expires_hours # NoHours   \* timedelta raises: pass
                     /\ t > config.token_created_at[1] + config.token_expires_hours
             THEN [valid |-> FALSE, reason |-> "Token expired"]
             ELSE [valid |-> TRUE, reason |-> ""]

\* validate_custom_token: "weak" stands for a token that is too short, too
\* long or lacks a character class; the tokens of Tokens pass.
validate_custom_token(token) == token \in Tokens

\* set_custom_token at hour t: token_expires_hours is left as it is.
set_custom_token(config, token, t) ==
    IF ~validate_custom_token(token) THEN config
    ELSE [config EXCEPT !.auth_token = sha256(token), !.token_created_at = <<t>>]

\* What Popen and the three seconds after it gave: Popen raised, the process
\* is alive without a URL yet, it has printed its URL, or it has exited
\* without printing one.
PopenOutcomes == {"raises", "alive", "url", "exited"}

\* start_tunnel: is_running is set after the sleep whatever the process did.
start_tunnel(t, key, installed, popen) ==
    IF t.is_running
    THEN [tunnel |-> t, saved |-> FALSE, success |-> FALSE, error |-> "Tunnel already running"]
    ELSE IF ~installed
    THEN [tunnel |-> t, saved |-> FALSE, success |-> FALSE, error |-> "cloudflared not installed"]
    ELSE IF popen = "raises"
    THEN [tunnel |-> [t EXCEPT !.is_running = FALSE], saved |-> TRUE,
          success |-> FALSE, error |-> "Popen"]
    ELSE LET url == IF popen = "url" THEN "url" ELSE t.tunnel_url
         IN  [tunnel |-> [t EXCEPT !.tunnel_process = IF popen = "exited" THEN "exited"
                                                      ELSE "alive",
                                   !.tunnel_url = url,
                                   !.is_running = TRUE,
                                   !.monitor_thread = IF popen = "exited" THEN "none"
                                                      ELSE "waiting",
                                   !.config = [@ EXCEPT !.tunnel_url = url, !.enabled = TRUE]],
              saved |-> TRUE, success |-> TRUE, error |-> ""]

stop_tunnel(t) ==
    [t EXCEPT !.tunnel_process = "none", !.is_running = FALSE, !.tunnel_url = "",
              !.config = [@ EXCEPT !.enabled = FALSE, !.tunnel_url = ""]]

\* RemoteAccessServer.start: bind_ok is whether HTTPServer(...) could bind.
server_start(h, bind_ok) ==
    IF h.is_running THEN [http |-> h, success |-> FALSE, error |-> "Server already running"]
    ELSE IF ~bind_ok THEN [http |-> h, success |-> FALSE, error |-> "bind"]
    ELSE [http |-> [h EXCEPT !.server = TRUE, !.is_running = TRUE],
          success |-> TRUE, error |-> ""]

\* RemoteAccessServer.stop: shutdown() returns once the thread has left
\* serve_forever; the thread still has its finally clause to run.
server_stop(h) ==
    [h EXCEPT !.server = FALSE, !.is_running = FALSE,
              !.exiting = IF h.server THEN @ + 1 ELSE @]

\* dispatch("tunnel_generate_token")
GenerateAuthToken ==
    /\ \E raw_token \in Tokens : \E expires_hours \in ExpiresHours :
          /\ tunnel' = [tunnel EXCEPT !.config =
                           generate_auth_token(@, raw_token, expires_hours, utcnow)]
          /\ config_file' = <<save_config(tunnel'.config, singleton_key)>>
          /\ last' = [op |-> "generate_auth_token", token |-> raw_token,
                      created |-> utcnow, expires_hours |-> expires_hours]
    /\ UNCHANGED <<NetOther, singleton_key, utcnow, http>>

\* dispatch("tunnel_generate_token") with expires_hours: null, which the
\* range check lets through: the configuration is changed and saved, then
\* timedelta(hours=None) raises and the token, which no one will ever
\* present, is never returned.
GenerateAuthTokenNull ==
    /\ \E raw_token \in {"lost"} :
          /\ tunnel' = [tunnel EXCEPT !.config =
                           generate_auth_token(@, raw_token, NoHours, utcnow)]
          /\ config_file' = <<save_config(tunnel'.config, singleton_key)>>
          /\ last' = [op |-> "generate_auth_token_raised", token |-> raw_token]
    /\ UNCHANGED <<NetOther, singleton_key, utcnow, http>>

\* dispatch("tunnel_set_custom_token")
SetCustomToken ==
    /\ \E token \in Tokens \cup {"weak"} :
          /\ tunnel' = [tunnel EXCEPT !.config = set_custom_token(@, token, utcnow)]
          /\ config_file' = IF validate_custom_token(token)
                            THEN <<save_config(tunnel'.config, singleton_key)>>
                            ELSE config_file
          /\ last' = [op |-> "set_custom_token", token |-> token,
                      success |-> validate_custom_token(token)]
    /\ UNCHANGED <<NetOther, singleton_key, utcnow, http>>

\* dispatch("tunnel_validate_token")
ValidateToken ==
    /\ \E token \in Tokens \cup {""} :
          last' = [op |-> "validate_token", token |-> token,
                   valid |-> validate_token(tunnel.config, singleton_key, utcnow, token).valid]
    /\ UNCHANGED <<NetOther, netVars>>

\* crypto_service.set_password on the singleton TunnelService uses.
SetSingletonPassword ==
    /\ \E k \in Keys : singleton_key' = k
    /\ UNCHANGED <<NetOther, last, tunnel, config_file, utcnow, http>>

\* The worker is started again: the services are constructed anew, the
\* configuration is loaded from the file, no master key is set.
RestartWorker ==
    /\ tunnel' = NewTunnel(config_file, None)
    /\ singleton_key' = None
    /\ http' = NewServer
    /\ UNCHANGED <<NetOther, last, config_file, utcnow>>

\* An hour passes.
Hour ==
    /\ utcnow < MaxClock
    /\ utcnow' = utcnow + 1
    /\ UNCHANGED <<NetOther, last, tunnel, config_file, singleton_key, http>>

\* dispatch("tunnel_start"): the HTTP server first, then the tunnel; the
\* server is stopped again when the tunnel does not start.
TunnelStart ==
    /\ http.exiting < MaxThreads
    /\ \E licensed \in BOOLEAN : \E bind_ok \in BOOLEAN : \E installed \in BOOLEAN :
       \E popen \in PopenOutcomes :
          LET http_result == server_start(http, bind_ok)
              tunnel_result == start_tunnel(tunnel, singleton_key, installed, popen)
              spawned == tunnel_result.success /\ popen = "exited"
          IN  IF ~licensed
              THEN /\ last' = [op |-> "tunnel_start", success |-> FALSE,
                               error |-> "LICENSE_REQUIRED", exited |-> FALSE]
                   /\ UNCHANGED <<tunnel, config_file, http>>
              ELSE IF ~http_result.success
              THEN /\ last' = [op |-> "tunnel_start", success |-> FALSE,
                               error |-> http_result.error, exited |-> FALSE]
                   /\ UNCHANGED <<tunnel, config_file, http>>
              ELSE /\ tunnel' = tunnel_result.tunnel
                   /\ config_file' = IF tunnel_result.saved
                                     THEN <<save_config(tunnel'.config, singleton_key)>>
                                     ELSE config_file
                   /\ http' = IF tunnel_result.success THEN http_result.http
                              ELSE server_stop(http_result.http)
                   /\ last' = [op |-> "tunnel_start", success |-> tunnel_result.success,
                               error |-> tunnel_result.error, exited |-> spawned]
    /\ UNCHANGED <<NetOther, singleton_key, utcnow>>

\* dispatch("tunnel_stop")
TunnelStop ==
    /\ tunnel' = stop_tunnel(tunnel)
    /\ config_file' = <<save_config(tunnel'.config, singleton_key)>>
    /\ http' = server_stop(http)
    /\ last' = [op |-> "tunnel_stop", success |-> TRUE, error |-> "", exited |-> FALSE]
    /\ UNCHANGED <<NetOther, singleton_key, utcnow>>

\* _run_server, finally: a thread that has left serve_forever clears is_running.
ServerThreadExit ==
    /\ http.exiting > 0
    /\ http' = [http EXCEPT !.exiting = @ - 1, !.is_running = FALSE,
                            !.late = @ \/ http.server]
    /\ UNCHANGED <<NetOther, last, tunnel, config_file, singleton_key, utcnow>>

\* read_output: cloudflared prints its URL.
CloudflaredUrl ==
    /\ tunnel.tunnel_process = "alive" /\ tunnel.tunnel_url = ""
    /\ tunnel' = [tunnel EXCEPT !.tunnel_url = "url",
                                !.config = [@ EXCEPT !.tunnel_url = "url"]]
    /\ config_file' = <<save_config(tunnel'.config, singleton_key)>>
    /\ UNCHANGED <<NetOther, last, singleton_key, utcnow, http>>

\* cloudflared exits on its own.
CloudflaredExit ==
    /\ tunnel.tunnel_process = "alive"
    /\ tunnel' = [tunnel EXCEPT !.tunnel_process = "exited"]
    /\ UNCHANGED <<NetOther, last, config_file, singleton_key, utcnow, http>>

\* read_output, `for line in self.tunnel_process.stdout`: the thread reads a
\* line with a trycloudflare.com URL that the live process printed.
ReadLine ==
    /\ tunnel.monitor_thread = "waiting" /\ tunnel.tunnel_process = "alive"
    /\ tunnel' = [tunnel EXCEPT !.monitor_thread = "line"]
    /\ UNCHANGED <<NetOther, last, config_file, singleton_key, utcnow, http>>

\* read_output, the body of the loop for the line in hand: the URL is
\* assigned and saved, and only then is _stop_event looked at. The event is
\* set by stop_tunnel and cleared after Popen, so for this thread it is set
\* exactly when stop_tunnel has put tunnel_process back to None.
StoreUrl ==
    /\ tunnel.monitor_thread = "line"
    /\ tunnel' = [tunnel EXCEPT !.tunnel_url = "url",
                                !.config = [@ EXCEPT !.tunnel_url = "url"],
                                !.monitor_thread =
                                    IF tunnel.tunnel_process = "none" THEN "none"
                                    ELSE "waiting"]
    /\ config_file' = <<save_config(tunnel'.config, singleton_key)>>
    /\ UNCHANGED <<NetOther, last, singleton_key, utcnow, http>>

\* read_output: stdout of a process that is gone reaches its end.
ReaderEof ==
    /\ tunnel.monitor_thread = "waiting" /\ tunnel.tunnel_process # "alive"
    /\ tunnel' = [tunnel EXCEPT !.monitor_thread = "none"]
    /\ UNCHANGED <<NetOther, last, config_file, singleton_key, utcnow, http>>

NextReader ==
    \/ TunnelStart
    \/ TunnelStop
    \/ ServerThreadExit
    \/ ReadLine
    \/ StoreUrl
    \/ ReaderEof
    \/ CloudflaredExit

SpecReader == Init /\ [][NextReader]_vars

NextTunnel ==
    \/ TunnelStart
    \/ TunnelStop
    \/ ServerThreadExit
    \/ CloudflaredUrl
    \/ CloudflaredExit

SpecTunnel == Init /\ [][NextTunnel]_vars

NextToken ==
    \/ GenerateAuthToken
    \/ GenerateAuthTokenNull
    \/ SetCustomToken
    \/ ValidateToken
    \/ SetSingletonPassword
    \/ RestartWorker
    \/ Hour

SpecToken == Init /\ [][NextToken]_vars

(***************************************************************************)
(* The web context of chat_stream: what is asked of the search adapter.    *)
(* web_max_results is a JSON value: absent, a number, a string of digits,  *)
(* or some other text.                                                     *)
(***************************************************************************)
DefaultResults == 5
LeastResults == 1
MostResults == 10

JsonValue(kind, value) == [kind |-> kind, value |-> value]

WebMaxResults ==
    {JsonValue("absent", 0), JsonValue("text", 0)}
        \cup {JsonValue(k, n) : k \in {"number", "digits"}, n \in (0 - MaxAsked)..MaxAsked}

\* payload.get("web_max_results", 5), then int(...), 5 when int raises.
int_or_default(v) ==
    IF v.kind = "absent" THEN DefaultResults
    ELSE IF v.kind = "text" THEN DefaultResults
    ELSE v.value

\* max_results: the default again when the number is outside 1..10.
max_results_of(v) ==
    IF int_or_default(v) < LeastResults \/ int_or_default(v) > MostResults
    THEN DefaultResults
    ELSE int_or_default(v)

\* The block of chat_stream between the memory entries and build_prompt.
web_context(web_query, internetAccess, web_max_results) ==
    IF ~web_query
    THEN [error |-> "", called |-> NoCall]
    ELSE IF ~internetAccess
    THEN [error |-> "Internet access disabled in settings", called |-> NoCall]
    ELSE [error |-> "", called |-> max_results_of(web_max_results)]

\* A chat stream reaches the block; an error raised there is yielded as the
\* error event by the except clause.
WebContext ==
    /\ \E web_query \in BOOLEAN : \E internetAccess \in BOOLEAN :
       \E web_max_results \in WebMaxResults :
          LET r == web_context(web_query, internetAccess, web_max_results)
          IN  last' = [op |-> "web_context", web_query |-> web_query,
                       internetAccess |-> internetAccess,
                       web_max_results |-> web_max_results,
                       called |-> r.called,
                       event |-> IF r.error # "" THEN "error" ELSE "prompt_preview"]
    /\ UNCHANGED <<NetOther, netVars>>

NextWeb == WebContext

SpecWeb == Init /\ [][NextWeb]_vars

(***************************************************************************)
(* SecureRequestHandler: one HTTP request, from the checks to the handler. *)
(***************************************************************************)
Methods == {"GET", "POST", "OPTIONS"}
Paths == {"/health", "/", "/index.html", "/api/status", "/api/chat"}

\* The Authorization header: absent, of another scheme, or Bearer <token>.
AuthHeaders ==
    {[scheme |-> "", token |-> ""], [scheme |-> "Basic", token |-> "t1"]}
        \cup {[scheme |-> "Bearer", token |-> t] : t \in Tokens}

\* The body of a POST: not JSON, JSON without model or prompt, a chat request.
Bodies == {"invalid", "empty", "chat"}

\* What the handler answered: the status sent, the _handle_* method that
\* ran and the command it dispatched, None when there was none.
Response(code, method, cmd) ==
    [status |-> code, handler |-> method, command |-> cmd]

\* The request carries "Authorization: Bearer <token>" with a token that
\* validate_token accepts at hour t.
CarriedValidToken(config, key, t, auth) ==
    /\ auth.scheme = "Bearer"
    /\ validate_token(config, key, t, auth.token).valid

\* _authenticate: False after a 401 has been sent.
authenticate(config, key, t, auth) ==
    auth.scheme = "Bearer" /\ validate_token(config, key, t, auth.token).valid

\* do_GET; ip_allowed and rate_allowed are the answers of check_ip_allowed
\* and rate_limiter.is_allowed for the client.
do_GET(path, authenticated, ip_allowed, rate_allowed) ==
    IF ~ip_allowed THEN Response(403, None, None)
    ELSE IF ~rate_allowed THEN Response(429, None, None)
    ELSE IF path = "/health" THEN Response(200, "_handle_health", None)
    ELSE IF path = "/" \/ path = "/index.html"
    THEN Response(200, "_serve_web_interface", None)
    ELSE IF ~authenticated THEN Response(401, None, None)
    ELSE IF path = "/api/status" THEN Response(200, "_handle_status", "get_system_stats")
    ELSE Response(404, None, None)

do_POST(path, authenticated, ip_allowed, rate_allowed, body) ==
    IF ~ip_allowed THEN Response(403, None, None)
    ELSE IF ~rate_allowed THEN Response(429, None, None)
    ELSE IF ~authenticated THEN Response(401, None, None)
    ELSE IF body = "invalid" THEN Response(400, None, None)
    ELSE IF path = "/api/chat"
    THEN IF body = "empty" THEN Response(400, "_handle_chat", None)
         ELSE Response(200, "_handle_chat", "chat")
    ELSE Response(404, None, None)

do_OPTIONS == Response(204, None, None)

\* A request reaches the server while it listens; last records its path,
\* whether it carried a valid token, and the answer.
HttpRequest ==
    /\ http.server
    /\ \E method \in Methods : \E path \in Paths : \E auth \in AuthHeaders :
       \E ip_allowed \in BOOLEAN : \E rate_allowed \in BOOLEAN :
       \E body \in IF method = "POST" THEN Bodies ELSE {"empty"} :
          LET authenticated == authenticate(tunnel.config, singleton_key, utcnow, auth)
              response == IF method = "GET"
                          THEN do_GET(path, authenticated, ip_allowed, rate_allowed)
                          ELSE IF method = "POST"
                          THEN do_POST(path, authenticated, ip_allowed, rate_allowed, body)
                          ELSE do_OPTIONS
          IN  last' = [op |-> "http", path |-> path,
                       token_valid |-> CarriedValidToken(tunnel.config, singleton_key,
                                                         utcnow, auth),
                       response |-> response]
    /\ UNCHANGED <<NetOther, netVars>>

NextHttp ==
    \/ GenerateAuthToken
    \/ Hour
    \/ TunnelStart
    \/ TunnelStop
    \/ ServerThreadExit
    \/ HttpRequest

SpecHttp == Init /\ [][NextHttp]_vars

(***************************************************************************)
(* Claims about the permission guard and the pre-flight.                   *)
(***************************************************************************)
Listed(cmd) == cmd \in ALWAYS_ALLOWED \cup DOMAIN REQUIRED_PERMISSIONS

DenialCodes == {"PERMISSION_DENIED", "PAYLOAD_TOO_LARGE", "RATE_LIMIT_EXCEEDED"}

\* The reader thread holds a dispatched request whose reply is not yet written.
Dispatched == reader.pc = "respond"

\* A step in which the reader thread dispatches a request.
DispatchStep == reader.pc = "read" /\ reader'.pc = "respond"

\* A step in which the reader thread writes the reply of the request in hand.
ReplyStep == reader.pc = "respond" /\ reader'.pc = "read"

\* The frame a step writes for request id.
NewFrame(id) == out'[id][Len(out'[id])]

C2_WitnessAllowed ==
    /\ last.op = "check" /\ enabled
    /\ last.cmd = "analyze_repository" /\ last.allowed

PreflightDenied == Dispatched /\ reader.result.code \in DenialCodes

C11_PreflightOrder ==
    [][DispatchStep =>
        LET res == reader'.result
            g == check(reader'.cmd, reader'.payload, enabled, granted_permissions)
        IN  /\ ~g.allowed => res = ErrorDict("PERMISSION_DENIED", "guard")
            /\ g.allowed /\ ~validate_payload_size(reader'.payload)
                  => res = ErrorDict("PAYLOAD_TOO_LARGE", "size")
            /\ res.code \in {"PERMISSION_DENIED", "PAYLOAD_TOO_LARGE"}
                  => UNCHANGED <<request_history, blocked_ips>>
            /\ res.code \in DenialCodes
                  => /\ res.stage # "handler"
                     /\ UNCHANGED <<guardVars, chatVars>>]_vars

\* C11 witness: a rate-limited command the guard lets through (its
\* permission is granted) was sent with an oversize payload and denied for
\* its size, the limiter holding no timestamp for it.
C11_Witness ==
    /\ Dispatched
    /\ reader.cmd = "tunnel_validate_custom_token"
    /\ "RemoteAccess" \in granted_permissions
    /\ reader.result = ErrorDict("PAYLOAD_TOO_LARGE", "size")
    /\ request_history["tunnel_validate_custom_token"]["unknown"] = <<>>

\* C11 witness at the guard: a rate-limited command without its permission
\* was refused by the guard and left no timestamp.
C11_WitnessGuard ==
    /\ Dispatched
    /\ reader.cmd = "analyze_repository"
    /\ reader.result = ErrorDict("PERMISSION_DENIED", "guard")
    /\ request_history["analyze_repository"]["unknown"] = <<>>

\* C12: the granted set changes only in a dispatch of grant_permission or
\* revoke_permission that reaches its handler, and then by exactly the
\* permission named: every other step (the guard's check included, and the
\* dispatch of any other command, allowed or denied) leaves it unchanged.
C12_ExplicitGrantsOnly ==
    [][granted_permissions' # granted_permissions =>
        /\ DispatchStep
        /\ reader'.result.stage = "handler"
        /\ \/ /\ reader'.cmd = "grant_permission"
              /\ granted_permissions' =
                    granted_permissions \cup {reader'.payload.permission}
           \/ /\ reader'.cmd = "revoke_permission"
              /\ granted_permissions' =
                    granted_permissions \ {reader'.payload.permission}]_vars

\* C12 witness: with another permission granted, a sensitive command was
\* used for the first time, refused, and its permission is still not granted.
C12_Witness ==
    /\ Dispatched
    /\ reader.cmd = "analyze_repository"
    /\ reader.result.code = "PERMISSION_DENIED"
    /\ granted_permissions = {"RemoteAccess"}

\* C12 witness, allowed side: a sensitive command ran with its permission
\* while a second permission was granted too, and both are still granted.
C12_WitnessAllowed ==
    /\ Dispatched
    /\ reader.cmd = "analyze_repository"
    /\ reader.result.stage = "handler"
    /\ granted_permissions = {"RepoAnalyze", "RemoteAccess"}

(***************************************************************************)
(* Claims about replies and streams, checked under SpecStream.             *)
(***************************************************************************)
TerminalEvents == {"done", "cancelled", "error"}

IsAck(f) == f.kind = "response" /\ f.status = "ok" /\ f.data = "streaming_started"

IsTerminalEvent(f) == f.kind = "event" /\ f.event \in TerminalEvents

\* A frame that closes a stream for the host: a terminal event, or the frame
\* {id, error, done: True} of _handle_stream.
EndsStream(f) == IsTerminalEvent(f) \/ f.kind = "raw"

Responses(id) == SelectSeq(FramesOf(id), LAMBDA f : f.kind = "response")

StreamFrames(id) == SelectSeq(FramesOf(id), LAMBDA f : f.kind # "response")

\* The reader thread has finished the loop iteration of request id.
Answered(id) == id \in 1..nread /\ ~(reader.pc = "respond" /\ reader.id = id)

Finished(id) == id \in DOMAIN streams /\ streams[id].pc = "finished"

\* C4: every accepted request gets, tagged with its id, either a single
\* terminal response frame and nothing else, or a single streaming_started
\* acknowledgement followed by the frames of its stream, the last of which
\* closes the stream.
C4_OneAnswerPerRequest ==
    \A id \in 1..nread :
        Answered(id) =>
            LET fs == FramesOf(id)
            IN  IF id \in DOMAIN streams
                THEN /\ Len(fs) >= 1 /\ IsAck(fs[1])
                     /\ \A i \in 2..Len(fs) : fs[i].kind # "response"
                     /\ Finished(id) => Len(fs) >= 2 /\ EndsStream(fs[Len(fs)])
                ELSE Len(fs) = 1 /\ fs[1].kind = "response" /\ ~IsAck(fs[1])

\* The counting part of C4, whatever the order of the frames: an answered
\* request has exactly one response frame, which is the acknowledgement
\* exactly when a stream was started for it; a request without a stream has
\* no other frame, and a finished stream has written a closing frame last.
OneResponseFramePerRequest ==
    \A id \in 1..nread :
        /\ Len(Responses(id)) = IF Answered(id) THEN 1 ELSE 0
        /\ Answered(id) => (IsAck(Responses(id)[1]) <=> id \in DOMAIN streams)
        /\ id \notin DOMAIN streams => StreamFrames(id) = <<>>
        /\ Finished(id) =>
              /\ StreamFrames(id) # <<>>
              /\ EndsStream(StreamFrames(id)[Len(StreamFrames(id))])

\* C5: every stream ends with exactly one terminal event of {done,
\* cancelled, error}: no frame of the request follows a terminal event, and
\* a stream that has ended has written one.
C5_OneTerminalEvent ==
    \A id \in DOMAIN streams :
        LET ev == StreamFrames(id)
        IN  /\ \A i \in 1..Len(ev) : IsTerminalEvent(ev[i]) => i = Len(ev)
            /\ Finished(id) => ev # <<>> /\ IsTerminalEvent(ev[Len(ev)])

\* C6: the streaming_started acknowledgement is the first frame written with
\* the id of a streaming request.
C6_AckFirst ==
    \A id \in DOMAIN streams :
        FramesOf(id) # <<>> => IsAck(FramesOf(id)[1])

\* C8: once cancel_chat has set the flag for the chat that is streaming, the
\* stream thread writes at most the token it had already cut, and its next
\* step from the head of the loop, on either provider, writes the cancelled
\* event.
C8_CancelledAfterCancel ==
    [][\A id \in DOMAIN streams :
          (/\ streams[id].pc \in {"air_loop", "next_chunk"}
           /\ cancel_streaming
           /\ active_chat_id = streams[id].chat_id
           /\ streams'[id] # streams[id])
          => /\ Len(FramesOf(id)') = Len(FramesOf(id)) + 1
             /\ FramesOf(id)'[Len(FramesOf(id)')].event = "cancelled"]_vars

\* C9: after a cancelled chat stream has ended, the conversation holds the
\* user message and no assistant message (the chat has no other stream).
C9_CancelledNotPersisted ==
    \A id \in DOMAIN streams :
        (/\ Finished(id)
         /\ streams[id].kind = "chat"
         /\ \E i \in 1..Len(FramesOf(id)) : FramesOf(id)[i].event = "cancelled"
         /\ \A other \in DOMAIN streams \ {id} :
                streams[other].chat_id # streams[id].chat_id)
        => LET msgs == get_messages(store, streams[id].chat_id)
           IN  /\ \E i \in 1..Len(msgs) : msgs[i].role = "user"
               /\ \A i \in 1..Len(msgs) : msgs[i].role # "assistant"

SendRawWritesExclusive ==
    /\ \A i \in 1..Len(stdout) :
          (stdout[i].via = "send_raw" /\ stdout[i].what = "frame" /\ i < Len(stdout)
           /\ stdout[i + 1].via = "send_raw")
          => stdout[i + 1] = Chunk(stdout[i].by, "newline", "send_raw")
    /\ \A e \in Emitters :
          emitters[e].pc \in {"write_text", "write_end", "release"} => lock = e

(***************************************************************************)
(* Claims about the rate limiter.                                          *)
(***************************************************************************)
\* C10: a request of a client that is not blocked is allowed exactly when
\* fewer than L allowed requests of the same command and client lie in the
\* window of the last time_window seconds, so L requests inside a window
\* pass and the (L+1)-th is denied; the denial carries retry_after >=
\* block_duration.
C10_WindowLimit ==
    (last.op = "check_limit" /\ ~last.was_blocked)
        => /\ last.allowed <=> last.prior < limits[last.cmd]
           /\ ~last.allowed => last.retry_after >= block_duration

\* C10 witness: the (L+1)-th request inside a window, by a client that was
\* not blocked, has been denied.
C10_Witness ==
    /\ last.op = "check_limit" /\ ~last.was_blocked
    /\ last.prior = limits[last.cmd]
    /\ ~last.allowed /\ last.retry_after = block_duration

\* C10 witness at the window's edge: the earlier requests are exactly
\* time_window seconds old and still count.
C10_WitnessEdge ==
    /\ last.op = "check_limit" /\ ~last.was_blocked /\ ~last.allowed
    /\ Len(recent[last.cmd][last.ip]) > 0
    /\ \A i \in 1..Len(recent[last.cmd][last.ip]) :
          recent[last.cmd][last.ip][i] = now - time_window

(***************************************************************************)
(* Claims about the read loop and shutdown.                                *)
(***************************************************************************)
\* A shutdown request has been dispatched and its reply written.
ShutdownAcknowledged ==
    \E id \in DOMAIN out : \E i \in 1..Len(out[id]) :
        out[id][i].data = "shutdown_acknowledged"

\* A step in which the telemetry thread pushes a SYSTEM_STATS frame.
MonitorStep == emitters'["telemetry"].sent # emitters["telemetry"].sent

\* C13: a handler that throws gives a status "error" frame with code CMD_ERR
\* for that request and the worker keeps reading; only the end of stdin or a
\* shutdown ends the read loop.
C13_OnlyEofOrShutdownEndsLoop ==
    ~running => reader.pc = "eof" \/ ShutdownAcknowledged

\* The first half of C13: the reply to a request whose dispatch raised is an
\* error frame with code CMD_ERR, and the reader thread goes back to reading.
C13_RaiseGivesCmdErr ==
    [][ReplyStep /\ reader.result.kind = "raise" =>
        /\ NewFrame(reader.id).status = "error"
        /\ NewFrame(reader.id).error_code = "CMD_ERR"
        /\ reader'.pc = "read" /\ running']_vars

\* C13, the case of the first half: the registry's "Unknown command" error
\* has been answered.
C13_WitnessUnknown ==
    \E id \in DOMAIN out : \E i \in 1..Len(out[id]) :
        out[id][i].error_code = "CMD_ERR" /\ out[id][i].data = "Unknown command"

\* C14: once a shutdown has been processed the sidecar is disabled, no
\* SYSTEM_STATS frame is pushed any more and no further request is dispatched.
C14_ShutdownTerminates ==
    [][ShutdownAcknowledged =>
        /\ air.process = NoProcess /\ air.status = "OFF"
        /\ ~MonitorStep
        /\ ~DispatchStep]_vars

(***************************************************************************)
(* Claims about the sidecar supervisor.                                    *)
(***************************************************************************)
\* The callers between the acquisition of gen_lock and the return of
\* generate: about to write their request, or waiting for its response.
InGenerate == {c \in Callers : callers[c].pc \in {"send", "wait", "disable_1", "disable_2"}}

\* A step in which a request is written to a sidecar's stdin.
WriteStep == \E p \in DOMAIN procs : Len(procs'[p].inbox) > Len(procs[p].inbox)

C15_WitnessWaiting ==
    \E c, d \in Callers : callers[c].pc = "wait" /\ callers[d].pc = "acquire"

\* The process has exited and the reader thread bound to it has run
\* _handle_process_exit.
ExitHandled(pid) ==
    /\ pid \in DOMAIN procs /\ ~procs[pid].alive
    /\ \E n \in DOMAIN readers : readers[n].pid = pid /\ readers[n].pc = "done"

\* C16: when the sidecar exits (crash, disable, load-timeout watcher) while
\* requests are pending, every pending caller is signalled with a failure
\* instead of waiting for the generation timeout, and the status is OFF or
\* ERROR.
C16_PendingFailedOnExit ==
    /\ \A c \in Callers :
          callers[c].pc = "wait" /\ ExitHandled(callers[c].pid) => callers[c].event
    /\ ExitHandled(air.process) => air.status \in {"OFF", "ERROR"}

\* The crash case of C16: a caller is still waiting after _handle_process_exit
\* only if disable emptied the pending map before.
C16_CrashFailsPending ==
    [][\A c \in Callers :
          /\ callers[c].pc = "wait" /\ c \in DOMAIN air.pending
          /\ \E n \in DOMAIN readers : readers[n].pc # "done" /\ readers'[n].pc = "done"
          /\ air.status # "OFF"
          => callers'[c].event /\ air'.status \in {"OFF", "ERROR"}]_vars

\* C17: at most one sidecar process exists: every live child process is the
\* one the supervisor's process field refers to, so that enable for another
\* model has terminated the current process before it spawns the new one and
\* no process runs unreferenced.
C17_OneProcess ==
    /\ \A p \in DOMAIN procs : procs[p].alive => air.process = p
    /\ Cardinality({p \in DOMAIN procs : procs[p].alive}) <= 1

\* A step of the thread calling enable / disable, or of a disable called from
\* another thread: the calls that may move the status out of ERROR.
EnableOrDisableStep ==
    \/ main' # main
    \/ \E n \in DOMAIN watchers : watchers[n] = "disable_2" /\ watchers'[n] = "done"
    \/ \E c \in Callers : callers[c].pc = "disable_2" /\ callers'[c].pc = "done"

\* C18: the status is one of OFF, LOADING, READY, ERROR and moves along
\* OFF -> LOADING -> (READY | ERROR) -> OFF: READY is entered from LOADING
\* only, and once ERROR the status stays ERROR until the next enable or
\* disable, whatever the sidecar writes.
C18_StatusTransitions ==
    [][/\ air'.status \in {"OFF", "LOADING", "READY", "ERROR"}
       /\ air.status # "READY" /\ air'.status = "READY" => air.status = "LOADING"
       /\ air.status = "ERROR" /\ air'.status # "ERROR" => EnableOrDisableStep]_vars

\* A step in which caller c's event.wait times out.
TimeoutStep(c) ==
    /\ callers[c].pc = "wait" /\ ~callers[c].event
    /\ callers'[c].pc = "done"

\* A step in which a reader thread handles a response frame for id c.
LateResponseStep(c) ==
    \E n \in DOMAIN readers :
        /\ readers[n].pc = "read"
        /\ procs[readers[n].pid].outbox # <<>>
        /\ Head(procs[readers[n].pid].outbox) = ResponseFrame(c, TRUE)
        /\ procs'[readers[n].pid].outbox = Tail(procs[readers[n].pid].outbox)

\* C19: a generation that gets no response within the generation timeout
\* removes its pending entry, leaves the status as it was (READY), releases
\* the generation mutex and returns the 'Generation timeout' failure; a
\* response that arrives later for that id is ignored.
C19_GenerationTimeout ==
    [][\A c \in Callers :
          /\ TimeoutStep(c) =>
                /\ c \notin DOMAIN air'.pending
                /\ air'.status = air.status
                /\ air'.gen_lock = NoCaller
                /\ callers'[c].result = "Generation timeout"
          /\ LateResponseStep(c) /\ callers[c].result = "Generation timeout" =>
                /\ air' = air
                /\ callers' = callers]_vars

\* C19 witness: the caller has timed out with the status READY, and the
\* sidecar's response for its id is still to be read.
C19_Witness ==
    \E c \in Callers : \E p \in DOMAIN procs :
        /\ callers[c].result = "Generation timeout"
        /\ air.status = "READY" /\ air.process = p /\ air.gen_lock = NoCaller
        /\ procs[p].outbox # <<>> /\ Head(procs[p].outbox) = ResponseFrame(c, TRUE)
        /\ \E n \in DOMAIN readers : readers[n].pc = "read" /\ readers[n].pid = p

\* C19 witness: the late response has been read and dropped, and the next
\* caller has the mutex.
C19_WitnessNext ==
    \E c, d \in Callers : \E p \in DOMAIN procs :
        /\ callers[c].result = "Generation timeout"
        /\ callers[d].pc = "wait" /\ air.gen_lock = d /\ DOMAIN air.pending = {d}
        /\ procs[p].alive /\ procs[p].outbox = <<>> /\ procs[p].inbox = <<d>>

(***************************************************************************)
(* Claims about the conversation files.                                    *)
(***************************************************************************)
\* C20: a conversation file that is encrypted stays encrypted: after any
\* save_message and update_conversation_project calls, whatever the master
\* key is (set, unset, changed), a file that once carried the ENC: prefix
\* still carries it.
C20_EncryptedStaysEncrypted ==
    \A c \in DOMAIN files : files[c].was_enc => files[c].enc

\* The update_conversation_project half of C20: the call never removes the
\* prefix of a file, and leaves an encrypted file it cannot decrypt as it is.
C20_UpdateKeepsPrefix ==
    \A c \in DOMAIN files : \A p \in Projects :
        LET after == update_conversation_project(files, master_key, c, p)
        IN  files[c].enc =>
              /\ after[c].enc
              /\ files[c].key # master_key => after = files

\* C21: save_message on an existing encrypted conversation while the master
\* key is unset, or is not the key of the file, is refused: the file on disk
\* is left as it was, so the stored messages are not lost or replaced.
C21_UndecryptableFileUntouched ==
    [][\A c \in DOMAIN files :
          files[c].enc /\ files[c].key # master_key /\ ~files'[c].corrupt
              => files'[c] = files[c]]_vars

\* The last call was save_message with encryption enabled under a key.
SavedEncrypted ==
    /\ last.op = "save_message" /\ last.encrypt /\ last.key # None
    /\ ~files[last.chat_id].corrupt

\* C22: encrypted round trip.  A content saved with encryption enabled under
\* password P is returned exactly by get_messages once the key is derived
\* from P again; under the key of another password decryption fails and
\* get_messages returns the empty list.
C22_EncryptedRoundTrip ==
    SavedEncrypted =>
        LET same == get_messages_enc(files, last.key, last.chat_id)
        IN  /\ same # <<>> /\ same[Len(same)] = last.content
            /\ \A k \in Keys \ {last.key} :
                  get_messages_enc(files, k, last.chat_id) = <<>>

\* C22 for contents that can be encoded as UTF-8: the round trip holds.
C22_RoundTripEncodable ==
    SavedEncrypted /\ encrypt_string_ok(files[last.chat_id]) =>
        LET same == get_messages_enc(files, last.key, last.chat_id)
        IN  /\ same # <<>> /\ same[Len(same)] = last.content
            /\ \A k \in Keys \ {last.key} :
                  get_messages_enc(files, k, last.chat_id) = <<>>

\* A step of chat_history_list.
ListStep == last' # last /\ last'.op = "list_conversations"

\* Number of entries of the listing for one conversation.
EntriesOf(result, c) == Cardinality({i \in 1..Len(result) : result[i].id = c})

C23_WitnessLocked ==
    /\ last.op = "list_conversations"
    /\ last.result = list_conversations(files, master_key)
    /\ Len(last.result) = 1 /\ ~last.result[1].encrypted
    /\ \E c \in DOMAIN files :
          files[c].enc /\ ~files[c].corrupt /\ master_key # None /\ files[c].key # master_key

\* A completed tunnel_start or tunnel_stop command.
TunnelCommandStep == last' # last /\ last'.op \in {"tunnel_start", "tunnel_stop"}

\* C26: the HTTP server and the tunnel start and stop as a pair: after every
\* completed tunnel_start or tunnel_stop, whatever its outcome, the HTTP
\* server is running exactly when the tunnel is running.
C26_ServerAndTunnelPaired ==
    [][TunnelCommandStep => (http'.is_running <=> tunnel'.is_running)]_vars

\* C26 as long as no server thread has run its finally clause after the
\* server was started again: the pair holds after every command.
C26_PairedWithoutLateThread ==
    [][TunnelCommandStep /\ ~http'.late
          => (http'.is_running <=> tunnel'.is_running)]_vars

\* C27: an error while the tunnel starts (the binary exits before it prints
\* a URL) brings the tunnel back to stopped: tunnel_start reports the failure
\* and the tunnel is not marked running.
C27_FailedStartIsStopped ==
    [][last' # last /\ last'.op = "tunnel_start" /\ last'.exited
          => ~last'.success /\ ~tunnel'.is_running]_vars

\* C27 for the failures start_tunnel does see (the binary is missing, Popen
\* raises): the command fails and the tunnel and the server stay stopped;
\* is_running changes only in tunnel_start and tunnel_stop.
C27_SeenFailureIsStopped ==
    [][/\ (last' # last /\ last'.op = "tunnel_start" /\ ~tunnel.is_running
              /\ last'.error \in {"cloudflared not installed", "Popen"}
             => ~last'.success /\ ~tunnel'.is_running /\ ~http'.is_running)
       /\ (tunnel'.is_running # tunnel.is_running => TunnelCommandStep)]_vars

\* The last call was generate_auth_token and its token has not expired.
TokenFresh ==
    /\ last.op = "generate_auth_token"
    /\ utcnow <= last.created + last.expires_hours

\* C24: after generate_auth_token the auth_token of the configuration file
\* is the SHA-256 of the token returned, or that hash encrypted, never the
\* token itself, and validate_token accepts the token returned, also when
\* the hash is encrypted in the file.
C24_TokenHashedAndAccepted ==
    last.op = "generate_auth_token" =>
        /\ config_file # <<>>
        /\ config_file[1].auth_token
              \in {sha256(last.token)} \cup {encrypt_token(sha256(last.token), k) : k \in Keys}
        /\ config_file[1].auth_token.kind # "clear"
        /\ TokenFresh =>
              validate_token(tunnel.config, singleton_key, utcnow, last.token).valid

\* C24, the part about the file: the hash or the encrypted hash is saved.
C24_HashAtRest ==
    last.op = "generate_auth_token" =>
        /\ config_file # <<>>
        /\ config_file[1].auth_token
              \in {sha256(last.token)} \cup {encrypt_token(sha256(last.token), k) : k \in Keys}

\* C24, the part about validate_token: the token is accepted until it
\* expires when the configuration holds the hash, or holds the encrypted
\* hash and the master key is the key it was encrypted under.
C24_AcceptedWhenReadable ==
    TokenFresh /\ (tunnel.config.auth_token.kind = "ENC"
                      => tunnel.config.auth_token.key = singleton_key)
        => validate_token(tunnel.config, singleton_key, utcnow, last.token).valid

\* The token is accepted with the hash encrypted in the file.
C24_WitnessEncrypted ==
    /\ TokenFresh /\ config_file[1].auth_token.kind = "ENC"
    /\ validate_token(tunnel.config, singleton_key, utcnow, last.token).valid

\* A request has been handled.
HttpStep == last' # last /\ last'.op = "http"

\* C25: on the HTTP surface only /health and / are served without a token:
\* a request to any other path that carries no token validate_token accepts
\* at that moment is answered 401 (or 403 or 429 by the earlier checks), no
\* handler runs for it and no command is dispatched.
C25_OnlyHealthAndRootPublic ==
    [][HttpStep /\ last'.path \notin {"/health", "/"} /\ ~last'.token_valid
          => /\ last'.response.status \in {401, 403, 429}
             /\ last'.response.handler = None
             /\ last'.response.command = None]_vars

\* C25, the part about the protected handlers: a handler that dispatches a
\* command, and every handler other than the health check and the login
\* page, runs only for a request that carried a valid token.
C25_DispatchOnlyWithValidToken ==
    [][HttpStep /\ (\/ last'.response.command # None
                    \/ last'.response.handler
                          \notin {None, "_handle_health", "_serve_web_interface"})
          => last'.token_valid]_vars

\* A call of check_limit has returned.
CheckLimitStep == last' # last /\ last'.op = "check_limit"

\* C28: a denial for a full window blocks the client for block_duration
\* seconds and records no timestamp; while the block runs every request of
\* the client is denied and nothing is recorded; the first request once it
\* has run out is judged on the sliding window again, and the block is
\* removed when it passes.
C28_BlockFromDenial ==
    [][CheckLimitStep =>
         LET ip == last'.ip
             cmd == last'.cmd
             blocked == ip \in DOMAIN blocked_ips /\ now < blocked_ips[ip]
         IN  /\ blocked => /\ ~last'.allowed
                           /\ UNCHANGED <<request_history, blocked_ips>>
             /\ ~blocked /\ ~last'.allowed
                    => /\ ip \in DOMAIN blocked_ips'
                       /\ blocked_ips'[ip] = now + block_duration
                       /\ Len(request_history'[cmd][ip]) = last'.prior
             /\ ~blocked /\ ip \in DOMAIN blocked_ips
                    => /\ last'.allowed <=> last'.prior < limits[cmd]
                       /\ last'.allowed => ip \notin DOMAIN blocked_ips']_vars

\* The first request after a block has run out was allowed and the block
\* is gone.
C28_Witness ==
    /\ last.op = "check_limit" /\ last.expired /\ last.allowed
    /\ last.ip \notin DOMAIN blocked_ips

\* A request was denied by a block that had one second left.
C28_WitnessLastSecond ==
    /\ last.op = "check_limit" /\ last.was_blocked /\ last.retry_after = 1

\* C29: limiting is per command and client: requests of command A, even
\* over A's limit, never make a request of another limited command B be
\* denied while B's own window holds fewer requests than B's limit.
C29_PerCommandLimits ==
    (last.op = "check_limit" /\ last.prior < limits[last.cmd] /\ ~last.allowed)
        => last.blocked_by = last.cmd

\* C29 for the windows: a call records a timestamp in the history of its
\* own command and client only.
C29_HistoryPerCommand ==
    [][CheckLimitStep =>
         \A c \in RateCmds : \A ip \in ClientIds :
            (c # last'.cmd \/ ip # last'.ip)
                => request_history'[c][ip] = request_history[c][ip]]_vars

\* The events of one kind a stream has written.
EventsOf(id, event) ==
    {i \in 1..Len(FramesOf(id)) :
        FramesOf(id)[i].kind = "event" /\ FramesOf(id)[i].event = event}

C30_WitnessNoToken ==
    \E id \in DOMAIN streams :
        /\ Finished(id) /\ streams[id].kind = "chat"
        /\ EventsOf(id, "error") # {}
        /\ EventsOf(id, "token") = {}

\* The data of the token events among the frames, in order.
TokenData(frames) ==
    LET toks == SelectSeq(frames, LAMBDA f : f.kind = "event" /\ f.event = "token")
    IN  [i \in 1..Len(toks) |-> toks[i].data]

\* The step writes the done event of chat stream id.
DoneStep(id) ==
    /\ id \in DOMAIN streams /\ streams[id].kind = "chat"
    /\ EventsOf(id, "done") = {}
    /\ id \in DOMAIN out'
    /\ Len(out'[id]) = Len(FramesOf(id)) + 1
    /\ out'[id][Len(out'[id])].event = "done"

C32_WitnessWriteFail ==
    /\ last.op = "monitor" /\ last.outcome = "write_fail"
    /\ emitters["telemetry"].sent >= 1

\* validate_token accepts the token now.
ValidNow(token) == validate_token(tunnel.config, singleton_key, utcnow, token).valid

\* The step stored the hash of a new token.
TokenIssued ==
    \/ last.op \in {"generate_auth_token", "generate_auth_token_raised"}
    \/ last.op = "set_custom_token" /\ last.success

\* C33: at most one token is valid; a valid token is the one whose hash is
\* stored, and the time is not later than token_created_at +
\* token_expires_hours; once a new hash is stored every other token is
\* rejected.
C33_OneTokenValidUntilExpiry ==
    /\ Cardinality({token \in Tokens : ValidNow(token)}) <= 1
    /\ \A token \in Tokens :
          ValidNow(token)
          => /\ tunnel.config.auth_token.token = token
             /\ tunnel.config.token_created_at # <<>>
             /\ tunnel.config.token_expires_hours # NoHours
             /\ utcnow <= tunnel.config.token_created_at[1]
                              + tunnel.config.token_expires_hours
    /\ TokenIssued => \A token \in Tokens \ {last.token} : ~ValidNow(token)

\* C33 where token_expires_hours is a number of hours: a valid token is the
\* one whose hash is stored and it has not expired, and a newly stored hash
\* leaves no other token valid.
C33_ValidOnlyCurrentUnexpired ==
    /\ Cardinality({token \in Tokens : ValidNow(token)}) <= 1
    /\ \A token \in Tokens :
          (ValidNow(token) /\ tunnel.config.token_expires_hours # NoHours)
          => /\ tunnel.config.auth_token.token = token
             /\ tunnel.config.token_created_at # <<>>
             /\ utcnow <= tunnel.config.token_created_at[1]
                              + tunnel.config.token_expires_hours
    /\ TokenIssued => \A token \in Tokens \ {last.token} : ~ValidNow(token)

\* A custom token is accepted after the hours once asked for have passed
\* since it was set: token_expires_hours is None.
C33_WitnessNeverExpires ==
    /\ last.op = "validate_token" /\ last.valid
    /\ tunnel.config.token_expires_hours = NoHours
    /\ utcnow = tunnel.config.token_created_at[1] + MaxClock

\* A token that was valid has been replaced and is rejected.
C33_WitnessReplaced ==
    /\ last.op = "set_custom_token" /\ last.success
    /\ ValidNow(last.token)
    /\ \E token \in Tokens \ {last.token} : ~ValidNow(token)

\* web_max_results clamped to [1, 10].
Clamped(n) == IF n < LeastResults THEN LeastResults
              ELSE IF n > MostResults THEN MostResults ELSE n

\* C34: with web_query set and internet access enabled the search adapter is
\* asked for web_max_results clamped to [1, 10], and for 5 when the value is
\* absent or not a number; with internet access disabled the stream fails
\* with an error event and the adapter is not called.
C34_ResultsClamped ==
    (last.op = "web_context" /\ last.web_query)
    => /\ (last.internetAccess /\ last.web_max_results.kind = "number")
             => last.called = Clamped(last.web_max_results.value)
       /\ (last.internetAccess /\ last.web_max_results.kind \in {"absent", "text"})
             => last.called = DefaultResults
       /\ ~last.internetAccess => last.event = "error" /\ last.called = NoCall

\* C34 as the code has it: a number inside [1, 10] is asked for as it is, any
\* other number, an absent value and a text give 5; with internet access
\* disabled the stream fails and the adapter is not called.
C34_InRangeOrDefault ==
    (last.op = "web_context" /\ last.web_query)
    => /\ (last.internetAccess /\ last.web_max_results.kind = "number")
             => last.called =
                   IF last.web_max_results.value \in LeastResults..MostResults
                   THEN last.web_max_results.value ELSE DefaultResults
       /\ (last.internetAccess /\ last.web_max_results.kind \in {"absent", "text"})
             => last.called = DefaultResults
       /\ ~last.internetAccess => last.event = "error" /\ last.called = NoCall

\* A request for more than 10 results was answered with the default.
C34_WitnessAboveRange ==
    /\ last.op = "web_context" /\ last.web_query /\ last.internetAccess
    /\ last.web_max_results = JsonValue("number", MostResults + 1)
    /\ last.called = DefaultResults

\* Chat stream id has started and not finished.
Streaming(id) ==
    id \in DOMAIN streams /\ streams[id].kind = "chat"
        /\ streams[id].pc \notin {"start", "finished"}

\* The step is one of chat stream id.
StreamStep(id) == id \in DOMAIN streams /\ streams'[id] # streams[id]

\* Chat streams a and b, of different chats, both exist and neither has
\* finished.
TwoChats(a, b) ==
    /\ a # b
    /\ streams[a].kind = "chat" /\ streams[b].kind = "chat"
    /\ streams[a].pc # "finished" /\ streams[b].pc # "finished"
    /\ streams[a].chat_id # streams[b].chat_id

\* C35: with two chat streams A and B alive, a cancellation requested for A
\* (the flag is up and the active chat is A's) never makes B write its
\* cancelled event, the start and the end of B never take the flag down
\* while A is streaming, and a cancel_chat naming A's chat while A is
\* streaming is accepted.
C35_CancellationPerChat ==
    [][\A a, b \in DOMAIN streams :
          TwoChats(a, b)
          => /\ (StreamStep(b) /\ cancel_streaming
                    /\ active_chat_id = streams[a].chat_id)
                => ~(/\ b \in DOMAIN out' /\ Len(out'[b]) = Len(FramesOf(b)) + 1
                     /\ out'[b][Len(out'[b])].event = "cancelled")
             /\ (StreamStep(b) /\ cancel_streaming /\ Streaming(a)
                    /\ active_chat_id = streams[a].chat_id
                    /\ (streams[b].pc = "start" \/ streams'[b].pc = "finished"))
                => cancel_streaming'
             /\ (DispatchStep /\ reader'.cmd = "cancel_chat" /\ Streaming(a)
                    /\ reader'.payload.chat_id = streams[a].chat_id)
                => reader'.result = Value("Streaming cancelled")]_vars

\* Two chats stream at once and the flag, set for one of them, is up.
C35_WitnessTwoStreaming ==
    /\ cancel_streaming
    /\ \E a, b \in DOMAIN streams :
          /\ a # b /\ Streaming(a) /\ Streaming(b)
          /\ streams[a].chat_id # streams[b].chat_id
          /\ active_chat_id = streams[b].chat_id

\* Reader thread n runs _handle_process_exit in this step, for a process
\* that is no longer the one the manager refers to.
OldReaderExit(n) ==
    /\ readers[n].pc = "read" /\ readers'[n].pc = "done"
    /\ readers[n].pid # air.process

\* C36: the exit handling of the reader thread of a process that disable
\* terminated leaves a sidecar enabled afterwards alone: its status, its
\* readiness event, its pending generations and the events of the callers
\* waiting on them are unchanged.
C36_OldExitLeavesNewSidecarAlone ==
    [][\A n \in DOMAIN readers :
          (OldReaderExit(n) /\ air.process # NoProcess)
          => /\ air'.status = air.status
             /\ air'.ready_event = air.ready_event
             /\ air'.pending = air.pending
             /\ callers' = callers]_vars

\* C36 before the new sidecar is announced: while the status is still the
\* OFF that disable left, the old reader's exit changes nothing.
C36_OldExitWhileOffIsSilent ==
    [][\A n \in DOMAIN readers :
          (OldReaderExit(n) /\ air.status = "OFF")
          => air' = air /\ callers' = callers]_vars

\* The old reader's exit has put a sidecar that was loading in ERROR.
C36_WitnessNewSidecarInError ==
    /\ air.status = "ERROR" /\ air.last_error = "AirLLM process exited"
    /\ air.process # NoProcess /\ procs[air.process].alive
    /\ procs[air.process].phase = "loading"

\* No thread is inside generate.
NoGenerateInProgress == \A c \in Callers : callers[c].pc \in {"idle", "done"}

\* C37: whenever no generate call is in progress the pending map is empty
\* and gen_lock is free.
C37_NothingLeftBehind ==
    NoGenerateInProgress => air.pending = <<>> /\ air.gen_lock = NoCaller

\* C37, the mutex alone: with no generate call in progress gen_lock is free.
C37_MutexReleased ==
    NoGenerateInProgress => air.gen_lock = NoCaller

\* A generate call returned "Send failed" and its entry is still in the map.
C37_WitnessEntryLeft ==
    /\ NoGenerateInProgress
    /\ \E c \in Callers :
          callers[c].result = "Send failed" /\ c \in DOMAIN air.pending

\* tunnel_stop was the last tunnel command dispatched: it has completed and
\* no tunnel_start has followed.
TunnelStopped == last.op = "tunnel_stop"

\* C38: after tunnel_stop has completed and until the next tunnel_start the
\* tunnel URL is empty in memory and in the saved configuration, however the
\* output-reader thread is interleaved.
C38_UrlStaysEmptyAfterStop ==
    TunnelStopped =>
        /\ tunnel.tunnel_url = ""
        /\ tunnel.config.tunnel_url = ""
        /\ config_file # <<>> /\ config_file[1].tunnel_url = ""

\* C38, the step of stop_tunnel alone: when tunnel_stop returns the URL is
\* empty in memory and in the file.
C38_StopClearsUrl ==
    [][TunnelStop => /\ tunnel'.tunnel_url = ""
                     /\ config_file'[1].tunnel_url = ""]_vars

\* C38: between tunnel_stop and the next tunnel command the URL comes back
\* only through a reader thread that holds a line it read before the stop.
C38_EmptyUnlessLateLine ==
    [][TunnelStopped /\ last' = last /\ tunnel.tunnel_url = "" /\ tunnel'.tunnel_url # ""
          => tunnel.monitor_thread = "line"]_vars

\* The reader thread has stored the URL of a tunnel that tunnel_stop stopped.
C38_WitnessUrlBack ==
    /\ TunnelStopped /\ tunnel.tunnel_process = "none"
    /\ tunnel.tunnel_url = "url" /\ config_file[1].tunnel_url = "url"

\* Every permission the table asks for has been granted.
AllGranted == {REQUIRED_PERMISSIONS[c] : c \in DOMAIN REQUIRED_PERMISSIONS} \subseteq granted_permissions

Dispatched_name == last.op = "dispatch_name"

\* C39: the guard's tables and the handlers of dispatch name the same
\* commands: a command the guard lets through never ends in "Unknown
\* command", a command with a handler reaches it once every permission is
\* granted, and no command is in both tables.
C39_TablesAndHandlersAgree ==
    Dispatched_name =>
        /\ last.outcome # "Unknown command"
        /\ (last.cmd \in Handlers /\ AllGranted => last.outcome = "handler")
        /\ ~(last.cmd \in ALWAYS_ALLOWED /\ last.cmd \in DOMAIN REQUIRED_PERMISSIONS)

\* C39, the third part: no dispatched command is in both tables.
C39_TablesDisjoint ==
    Dispatched_name =>
        ~(last.cmd \in ALWAYS_ALLOWED /\ last.cmd \in DOMAIN REQUIRED_PERMISSIONS)

\* C39, what holds of the first two parts: only http_start and http_stop are
\* let through to "Unknown command", and only web_search_available has a
\* handler that no granted set reaches.
C39_AgreeButThree ==
    Dispatched_name =>
        /\ (last.outcome = "Unknown command" => last.cmd \in {"http_start", "http_stop"})
        /\ (last.cmd \in Handlers /\ AllGranted /\ last.outcome # "handler"
                => last.cmd = "web_search_available")

\* http_start, with RemoteAccess granted, passed the guard and found no handler.
C39_WitnessListedUnhandled ==
    /\ Dispatched_name /\ last.cmd = "http_start" /\ last.outcome = "Unknown command"
    /\ "RemoteAccess" \in granted_permissions

\* web_search_available was refused with every permission granted.
C39_WitnessHandledUnlisted ==
    /\ Dispatched_name /\ last.cmd = "web_search_available" /\ AllGranted
    /\ last.outcome = "PERMISSION_DENIED"

PromptBuilt == last.op = "build_prompt"

\* How many user components of the prompt carry the message m.
UserCopies(components, m) ==
    Cardinality({i \in DOMAIN components :
                    components[i].type = "user" /\ components[i].content = m})

\* The user had not sent this same text earlier in the conversation.
FirstTimeSaid ==
    \A i \in DOMAIN last.earlier :
        ~(last.earlier[i].role = "user" /\ last.earlier[i].content = last.user_message)

\* C40: in the prompt built for a chat request the current user message is
\* the last component and appears once: the history loaded from the store
\* adds no second copy of the message just saved.
C40_CurrentMessageOnce ==
    PromptBuilt /\ FirstTimeSaid =>
        /\ last.components[Len(last.components)]
               = PromptComponent("user", last.user_message)
        /\ UserCopies(last.components, last.user_message) = 1

\* C40, the part about the position: the current user message is the last
\* component of the prompt.
C40_CurrentMessageLast ==
    PromptBuilt =>
        last.components[Len(last.components)] = PromptComponent("user", last.user_message)

\* C40, what the history contributes: the prompt is the system prompt, the
\* conversation as it was before the request, and the current message twice.
C40_HistoryRepeatsCurrent ==
    PromptBuilt =>
        last.components =
            <<PromptComponent("system", <<"rules">>)>>
                \o history_components(last.earlier)
                \o <<PromptComponent("user", last.user_message),
                     PromptComponent("user", last.user_message)>>

\* The first message of a new conversation stands twice in its prompt.
C40_WitnessTwoCopies ==
    /\ PromptBuilt /\ last.earlier = <<>>
    /\ UserCopies(last.components, last.user_message) = 2

\* A prompt was built in a conversation that already had a reply.
C40_WitnessWithHistory ==
    /\ PromptBuilt /\ FirstTimeSaid
    /\ \E i \in DOMAIN last.earlier : last.earlier[i].role = "assistant"
====
